---------------------------- MODULE Spec2Model ----------------------------
(***************************************************************************)
(* A model of the document conversion core of word_online:                *)
(*   - the text-prefix heading number generator of the DOCX exporter,     *)
(*   - the chapter builder of the DOCX importer,                          *)
(*   - the table parser's occupancy-matrix algorithm,                     *)
(*   - mark extraction, mark merging and resegmentation,                  *)
(*   - the HTML renderer / HTML parser round trip.                        *)
(* Each part has its own specification (SpecNum, SpecChap, ...) over the  *)
(* part's variables; the variables of the other parts stay idle.          *)
(*                                                                         *)
(* Characters outside ASCII that the program writes are spelled here as   *)
(* bracketed ASCII names: "[yi]" is the Chinese numeral one, "[dun]" the   *)
(* ideographic comma, "[di]" / "[zhang]" the chapter words, "(1)c" a       *)
(* circled digit.                                                          *)
(***************************************************************************)
EXTENDS Integers, Sequences, FiniteSets, TLC

VARIABLES
    \* HeadingNumberGenerator
    level_formats,   \* self.level_formats: level -> format name
    counters,        \* self.counters: level -> list of ints (<<>> = key absent)
    levels,          \* the levels get_number was called with, in order
    prefixes,        \* the strings get_number returned, in order
    \* ChapterBuilder.build
    max_level,             \* self.max_level
    style_rules,           \* self.style_rules
    blocks,                \* self.blocks, as far as the loop has read them
    chapters,              \* chapters
    current_blocks,        \* current_blocks
    current_chapter_info,  \* current_chapter_info: <<>> (None) or <<title, level>>
    parent_stack,          \* parent_stack
    build_pc,              \* "loop" while build() iterates, "done" once it returned
    \* parse_table
    html_rows,             \* the tr elements: each a list of td/th with their spans
    table_data,            \* table_data: rows, cols, cells, mergeRegions
    table_pc,              \* "start" before parse_table runs, "parsed" after
    \* merge_adjacent_marks, extract_text_and_marks
    marks,                 \* a mark list given to merge_adjacent_marks
    merged_marks,          \* merge_adjacent_marks(marks)
    remerged_marks,        \* merge_adjacent_marks(merged_marks)
    perm_marks,            \* merge_adjacent_marks of a permutation of marks
    element,               \* the element given to extract_text_and_marks
    extracted,             \* its result: full_text and marks
    mark_pc,               \* which of these calls have returned
    \* WangEditorRenderer._apply_marks, add_text_with_marks
    seg_text,              \* text
    seg_marks,             \* marks
    seg_segments,          \* the segments emitted: start, end, text, active marks
    seg_html,              \* the nodes of the HTML that _apply_marks returned
    seg_pc,                \* "start", then "rendered", "exported" or "raised"
    \* WangEditorRenderer.render, HtmlParser.parse
    rt_content,            \* self.content.blocks of the renderer
    rt_html,               \* the HTML that render returned, as its nodes
    rt_parsed,             \* self.blocks of the parser that read it
    rt_pc,                 \* "start", "rendered", "parsed"
    \* HtmlParser.parse on elements with rowspan, colspan and start attributes
    pa_elements,           \* the children of the body, with their attributes
    pa_blocks,             \* self.blocks
    pa_pc,                 \* "start", then "returned" or "raised"
    \* DocxExporter
    exp_config,                \* document_settings['heading_numbering_style']
    exp_content,               \* self.content["blocks"]
    exp_style,                 \* the color self.style_map has for the first block
    auto_numbering_id,         \* self.auto_numbering_id (0 = None)
    heading_number_generator,  \* self.heading_number_generator: <<>> or <<generator>>
    doc,                       \* the paragraphs of self.doc
    exp_calls,                 \* per export() call: outcome, first and last paragraph
    exp_idx,                   \* the position of the loop of export() in the blocks
    exp_pc,                    \* "new", "init_raised", "ready", "loop"
    \* DocxParser, ImageExtractor, ElementConverter
    imp_body,              \* the children of self.doc.element.body
    imp_elements,          \* parse_result.elements
    imp_images,            \* parse_result.images: the rIds it has an image for
    imp_path_map,          \* images_path_map: <<rId, path>> pairs
    imp_blocks,            \* content.blocks
    imp_pc,                \* "start", "parsed", "saved", "converted"
    cs_html,               \* the tables of the html: rows of cells' user styles
    cs_rules,              \* stylesheet.rules
    cs_blocks,             \* content.blocks: the table blocks
    cs_docx,               \* the styles applied to the cells of each exported table
    cs_rendered,           \* the styles of the cells of each rendered table
    cs_done,               \* which of "export" and "render" have run
    cs_pc                  \* "start", "parsed"

numVars == <<level_formats, counters, levels, prefixes>>

chapVars == <<max_level, style_rules, blocks, chapters, current_blocks,
              current_chapter_info, parent_stack, build_pc>>

tblVars == <<html_rows, table_data, table_pc>>

markVars == <<marks, merged_marks, remerged_marks, perm_marks, element, extracted,
              mark_pc>>

segVars == <<seg_text, seg_marks, seg_segments, seg_html, seg_pc>>

rtVars == <<rt_content, rt_html, rt_parsed, rt_pc>>

paVars == <<pa_elements, pa_blocks, pa_pc>>

expVars == <<exp_config, exp_content, exp_style, auto_numbering_id,
             heading_number_generator, doc, exp_calls, exp_idx, exp_pc>>

impVars == <<imp_body, imp_elements, imp_images, imp_path_map, imp_blocks, imp_pc>>

csVars == <<cs_html, cs_rules, cs_blocks, cs_docx, cs_rendered, cs_done, cs_pc>>

vars == <<numVars, chapVars, tblVars, markVars, segVars, rtVars, paVars, expVars,
          impVars, csVars>>

\* what each part leaves alone
notNumVars == <<chapVars, tblVars, markVars, segVars, rtVars, paVars, expVars, impVars, csVars>>

notChapVars == <<numVars, tblVars, markVars, segVars, rtVars, paVars, expVars, impVars, csVars>>

notTblVars == <<numVars, chapVars, markVars, segVars, rtVars, paVars, expVars, impVars, csVars>>

notMarkVars == <<numVars, chapVars, tblVars, segVars, rtVars, paVars, expVars, impVars, csVars>>

notSegVars == <<numVars, chapVars, tblVars, markVars, rtVars, paVars, expVars, impVars, csVars>>

notRtVars == <<numVars, chapVars, tblVars, markVars, segVars, paVars, expVars, impVars, csVars>>

notPaVars == <<numVars, chapVars, tblVars, markVars, segVars, rtVars, expVars, impVars, csVars>>

notExpVars == <<numVars, chapVars, tblVars, markVars, segVars, rtVars, paVars, impVars, csVars>>

notImpVars ==
    <<numVars, chapVars, tblVars, markVars, segVars, rtVars, paVars, expVars, csVars>>

notCsVars ==
    <<numVars, chapVars, tblVars, markVars, segVars, rtVars, paVars, expVars, impVars>>

-----------------------------------------------------------------------------
(* Small helpers on sequences.                                             *)

Max(a, b) == IF a >= b THEN a ELSE b

Min(a, b) == IF a <= b THEN a ELSE b

Last(s) == s[Len(s)]

SeqsUpTo(S, n) == UNION {[1..k -> S] : k \in 0..n}

RECURSIVE Repeat(_, _)
Repeat(x, n) == IF n <= 0 THEN <<>> ELSE <<x>> \o Repeat(x, n - 1)

-----------------------------------------------------------------------------
(* HeadingNumberGenerator (docx_exporter/heading_numbering.py)             *)

MaxLevel == 6

\* how many headings one export numbers in the model
MaxHeadings == 6

Levels == 1..MaxLevel

CHINESE_NUMBERS ==
    <<"[ling]", "[yi]", "[er]", "[san]", "[si]", "[wu]", "[liu]", "[qi]",
      "[ba]", "[jiu]", "[shi]">>

CIRCLED_NUMBERS ==
    <<"(1)c", "(2)c", "(3)c", "(4)c", "(5)c", "(6)c", "(7)c", "(8)c", "(9)c",
      "(10)c">>

\* PRESET_STYLES["style1"]["formats"]
Style1Formats ==
    <<"chinese", "hierarchical", "parenthesis", "hierarchical", "parenthesis",
      "circled">>

\* PRESET_STYLES["style4"]["formats"]
Style4Formats ==
    <<"chapter", "hierarchical", "hierarchical", "hierarchical",
      "hierarchical", "hierarchical">>

\* level_formats or {}: the empty dict makes every level "hierarchical"
NoFormats == <<>>

NoCounters == [l \in Levels |-> <<>>]

\* CHINESE_NUMBERS is indexed from 0 in the program, from 1 here
ToChineseNumber(num) ==
    IF num <= 0 THEN "[ling]"
    ELSE IF num <= 10 THEN CHINESE_NUMBERS[num + 1]
    ELSE IF num < 20 THEN "[shi]" \o CHINESE_NUMBERS[(num - 10) + 1]
    ELSE LET tens == num \div 10
             ones == num % 10
         IN  IF ones > 0
             THEN CHINESE_NUMBERS[tens + 1] \o "[shi]" \o CHINESE_NUMBERS[ones + 1]
             ELSE CHINESE_NUMBERS[tens + 1] \o "[shi]"

\* ".".join(str(c) for c in counters)
RECURSIVE JoinDots(_)
JoinDots(cs) ==
    IF cs = <<>> THEN ""
    ELSE IF Len(cs) = 1 THEN ToString(cs[1])
    ELSE ToString(cs[1]) \o "." \o JoinDots(Tail(cs))

\* the deeper levels are deleted from the dict
ClearDeeper(cs, level) == [l \in Levels |-> IF l > level THEN <<>> ELSE cs[l]]

\* a mutant: a level without a counter starts from ones instead of inheriting
\* the counters of its parent
UpdateCounterNoInherit(cs, level) ==
    IF level = 1
    THEN LET c1 == IF cs[1] = <<>> THEN <<1>>
                   ELSE [cs[1] EXCEPT ![1] = cs[1][1] + 1]
         IN  ClearDeeper([cs EXCEPT ![1] = c1], 1)
    ELSE LET parent_level == level - 1
             withParent == IF cs[parent_level] = <<>>
                           THEN [cs EXCEPT ![parent_level] = Repeat(1, parent_level)]
                           ELSE cs
             parent_counters == withParent[parent_level]
             current_counters == withParent[level]
             c2 == IF current_counters = <<>>
                   THEN Repeat(1, level)
                   ELSE IF Len(current_counters) < level
                           \/ SubSeq(current_counters, 1, parent_level) # parent_counters
                        THEN Append(parent_counters, 1)
                        ELSE [current_counters EXCEPT ![Len(current_counters)] = @ + 1]
         IN  ClearDeeper([withParent EXCEPT ![level] = c2], level)

UpdateCounter(cs, level) ==
    IF level = 1
    THEN LET c1 == IF cs[1] = <<>> THEN <<1>>
                   ELSE [cs[1] EXCEPT ![1] = cs[1][1] + 1]
         IN  ClearDeeper([cs EXCEPT ![1] = c1], 1)
    ELSE LET parent_level == level - 1
             withParent == IF cs[parent_level] = <<>>
                           THEN [cs EXCEPT ![parent_level] = Repeat(1, parent_level)]
                           ELSE cs
             parent_counters == withParent[parent_level]
             current_counters == withParent[level]
             c2 == IF current_counters = <<>>
                   THEN Append(parent_counters, 1)
                   ELSE IF Len(current_counters) < level
                           \/ SubSeq(current_counters, 1, parent_level) # parent_counters
                        THEN Append(parent_counters, 1)
                        ELSE [current_counters EXCEPT ![Len(current_counters)] = @ + 1]
         IN  ClearDeeper([withParent EXCEPT ![level] = c2], level)

GenerateNumber(cs, level, format_type) ==
    LET cnt == IF cs[level] = <<>> THEN <<1>> ELSE cs[level]
        current_num == Last(cnt)
    IN  CASE format_type = "chinese" -> ToChineseNumber(current_num) \o "[dun]"
          [] format_type = "number" -> ToString(current_num) \o "[dun]"
          [] format_type = "number_dot" -> ToString(current_num) \o ". "
          [] format_type = "hierarchical" -> JoinDots(cnt) \o " "
          [] format_type = "parenthesis" -> "(" \o ToString(current_num) \o ") "
          [] format_type = "circled" ->
                IF current_num <= 10 THEN CIRCLED_NUMBERS[current_num] \o " "
                ELSE "(" \o ToString(current_num) \o ") "
          [] format_type = "chapter" ->
                IF current_num <= 10
                THEN "[di]" \o ToChineseNumber(current_num) \o "[zhang] "
                ELSE "[di]" \o ToString(current_num) \o "[zhang] "
          [] format_type = "none" -> ""
          [] OTHER -> JoinDots(cnt) \o " "

\* self.level_formats.get(level, "hierarchical")
FormatOf(fmts, level) ==
    IF level \in DOMAIN fmts THEN fmts[level] ELSE "hierarchical"

\* max(1, min(6, level))
ClampLevel(level) == Max(1, Min(MaxLevel, level))

InitNum ==
    /\ level_formats \in {NoFormats, Style1Formats, Style4Formats}
    /\ counters = NoCounters
    /\ levels = <<>>
    /\ prefixes = <<>>

\* get_number(level), the generator being enabled
GetNumber(level) ==
    /\ Len(levels) < MaxHeadings
    /\ LET lv == ClampLevel(level)
           cs == UpdateCounter(counters, lv)
       IN  /\ counters' = cs
           /\ prefixes' = Append(prefixes, GenerateNumber(cs, lv, FormatOf(level_formats, lv)))
    /\ levels' = Append(levels, level)
    /\ UNCHANGED <<level_formats, notNumVars>>

IdleNum ==
    /\ level_formats = NoFormats
    /\ counters = NoCounters
    /\ levels = <<>>
    /\ prefixes = <<>>

-----------------------------------------------------------------------------
(* ChapterBuilder (docx_importer/chapter_builder.py)                       *)

\* how many blocks the imported document has in the model
MaxBlocks == 5

\* DocxImportConfig.DEFAULT_CHAPTER_TITLE
DefaultTitle == "default"

\* parent_id = None
NoParent == 0

\* the block kinds of the flat sequence: headings of each level, and blocks
\* that are no heading (level 0)
BlockKinds ==
    [type : {"heading"}, level : Levels] \cup [type : {"paragraph", "table"}, level : {0}]

\* the n-th block of the document: its id and text are made from its position
MakeBlock(kind, n) ==
    [id |-> n, type |-> kind.type, level |-> kind.level, text |-> "t" \o ToString(n)]

\* a mutant: a heading of level max_heading_level is no chapter heading
ConfigIsChapterHeadingBelow(level, maxl) == 1 <= level /\ level < maxl

\* DocxImportConfig.is_chapter_heading
ConfigIsChapterHeading(level, maxl) == 1 <= level /\ level <= maxl

\* ChapterBuilder._is_chapter_heading
IsChapterHeading(block, maxl) ==
    IF block.type # "heading" THEN FALSE ELSE ConfigIsChapterHeading(block.level, maxl)

\* a mutant: the nearest chapter of a level that is not greater
FindParentIdSameLevel(heading_level, stack) ==
    LET idx == {i \in 1..Len(stack) : stack[i].heading_level <= heading_level}
    IN  IF idx = {} THEN NoParent
        ELSE stack[CHOOSE i \in idx : \A j \in idx : j <= i].id

\* ChapterBuilder._find_parent_id: the last entry of the stack whose level is
\* smaller
FindParentId(heading_level, stack) ==
    LET idx == {i \in 1..Len(stack) : stack[i].heading_level < heading_level}
    IN  IF idx = {} THEN NoParent
        ELSE stack[CHOOSE i \in idx : \A j \in idx : j <= i].id

\* ChapterBuilder._update_parent_stack
RECURSIVE PopNotSmaller(_, _)
PopNotSmaller(stack, heading_level) ==
    IF stack # <<>> /\ Last(stack).heading_level >= heading_level
    THEN PopNotSmaller(SubSeq(stack, 1, Len(stack) - 1), heading_level)
    ELSE stack

\* a mutant: the stack is never popped
UpdateParentStackNoPop(stack, chapter) ==
    Append(stack, chapter)

UpdateParentStack(stack, chapter) ==
    Append(PopNotSmaller(stack, chapter.heading_level), chapter)

\* a StyleRule with its target: blockType and blockIds.  The blockIds of a
\* block rule and of a tableColumn rule are ids of blocks; the blockIds of a
\* tableCell rule are "cell-{row}-{col}" strings that name no table, so the
\* rule carries the id of the table it was derived from in of_table, which
\* the program does not have and no definition of the program reads
StyleRule(blockType, blockIds, of_table) ==
    [blockType |-> blockType, blockIds |-> blockIds, of_table |-> of_table]

\* bid.startswith("table-"): generate_block_id gives a block's id the prefix
\* of its type
StartsWithTable(block) == block.type = "table"

\* ChapterBuilder._rule_matches_blocks, on the blocks whose ids are block_ids
RuleMatchesBlocks(rule, blks) ==
    IF rule.blockType = "tableColumn" /\ rule.blockIds # <<>>
    THEN \E i \in 1..Len(rule.blockIds) : \E k \in 1..Len(blks) :
            rule.blockIds[i] = blks[k].id
    ELSE IF rule.blockType \in {"tableCell", "tableColumn"}
    THEN \E k \in 1..Len(blks) : StartsWithTable(blks[k])
    ELSE \E i \in 1..Len(rule.blockIds) : \E k \in 1..Len(blks) :
            rule.blockIds[i] = blks[k].id

\* related_rules (line 144)
RelatedRules(rules, blks) == SelectSeq(rules, LAMBDA r : RuleMatchesBlocks(r, blks))

\* ChapterBuilder._create_chapter; uuid4 ids are modelled by the chapter's
\* position in the list, which is as unique
CreateChapter(title, heading_level, blks, stack, order_index) ==
    [id |-> order_index + 1,
     title |-> title,
     level |-> heading_level,
     parent_id |-> FindParentId(heading_level, stack),
     order_index |-> order_index,
     content |-> blks,
     stylesheet |-> RelatedRules(style_rules, blks),
     heading_level |-> heading_level]

\* ChapterBuilder._create_default_chapter
CreateDefaultChapter ==
    [id |-> 1, title |-> DefaultTitle, level |-> 1, parent_id |-> NoParent,
     order_index |-> 0, content |-> <<>>, stylesheet |-> <<>>, heading_level |-> 1]

\* the chapter that build() creates from current_chapter_info and
\* current_blocks (lines 82-88 and 101-107)
PendingChapter ==
    CreateChapter(
        IF current_chapter_info # <<>> THEN current_chapter_info[1] ELSE DefaultTitle,
        IF current_chapter_info # <<>> THEN current_chapter_info[2] ELSE 1,
        current_blocks, parent_stack, Len(chapters))

HasPending == current_chapter_info # <<>> \/ current_blocks # <<>>

\* a mutant: the indices stay what _create_chapter gave
RecalculateOrderIndicesKept(chs) ==
    [i \in 1..Len(chs) |-> [chs[i] EXCEPT !.order_index = i - 1]]

\* ChapterBuilder._recalculate_order_indices: a chapter's index is the number
\* of earlier chapters with the same parent_id
RecalculateOrderIndices(chs) ==
    [i \in 1..Len(chs) |->
        [chs[i] EXCEPT !.order_index =
            Cardinality({j \in 1..(i - 1) : chs[j].parent_id = chs[i].parent_id})]]

\* how many of the first blocks of the document have style rules in the model
MaxStyled == 3

\* the rules convert_elements makes for a document whose n-th block has a
\* block style and, were it a table, a styled cell (0,0) and a column width
RulesOfBlock(n) ==
    <<StyleRule("paragraph", <<n>>, NoParent),
      StyleRule("tableCell", <<"cell-0-0">>, n),
      StyleRule("tableColumn", <<n>>, n)>>

RECURSIVE RulesUpTo(_)
RulesUpTo(n) == IF n = 0 THEN <<>> ELSE RulesUpTo(n - 1) \o RulesOfBlock(n)

StyleRuleLists == {RulesUpTo(MaxStyled)}

InitChap ==
    /\ max_level \in Levels
    /\ style_rules \in StyleRuleLists
    /\ blocks = <<>>
    /\ chapters = <<>>
    /\ current_blocks = <<>>
    /\ current_chapter_info = <<>>
    /\ parent_stack = <<>>
    /\ build_pc = "loop"

IdleChap ==
    /\ max_level = 1
    /\ style_rules = <<>>
    /\ blocks = <<>>
    /\ chapters = <<>>
    /\ current_blocks = <<>>
    /\ current_chapter_info = <<>>
    /\ parent_stack = <<>>
    /\ build_pc = "done"

\* one iteration of the loop of build(), the block being a chapter heading
BuildHeading(kind) ==
    /\ build_pc = "loop"
    /\ Len(blocks) < MaxBlocks
    /\ LET block == MakeBlock(kind, Len(blocks) + 1)
       IN  /\ IsChapterHeading(block, max_level)
           /\ blocks' = Append(blocks, block)
           /\ IF HasPending
              THEN /\ chapters' = Append(chapters, PendingChapter)
                   /\ parent_stack' = UpdateParentStack(parent_stack, PendingChapter)
              ELSE UNCHANGED <<chapters, parent_stack>>
           /\ current_chapter_info' = <<block.text, block.level>>
           /\ current_blocks' = <<>>
    /\ UNCHANGED <<max_level, style_rules, build_pc, notChapVars>>

\* one iteration of the loop of build(), the block being content
BuildContent(kind) ==
    /\ build_pc = "loop"
    /\ Len(blocks) < MaxBlocks
    /\ LET block == MakeBlock(kind, Len(blocks) + 1)
       IN  /\ ~IsChapterHeading(block, max_level)
           /\ blocks' = Append(blocks, block)
           /\ current_blocks' = Append(current_blocks, block)
    /\ UNCHANGED <<max_level, style_rules, chapters, current_chapter_info, parent_stack,
                   build_pc, notChapVars>>

\* the end of build(): the last chapter, the default chapter of an empty
\* document, the order indices, and the return
BuildReturn ==
    /\ build_pc = "loop"
    /\ LET withLast == IF HasPending THEN Append(chapters, PendingChapter) ELSE chapters
           withDefault == IF withLast = <<>> THEN <<CreateDefaultChapter>> ELSE withLast
       IN  chapters' = RecalculateOrderIndices(withDefault)
    /\ build_pc' = "done"
    /\ UNCHANGED <<max_level, style_rules, blocks, current_blocks, current_chapter_info,
                   parent_stack, notChapVars>>

-----------------------------------------------------------------------------
(* parse_table (html_parser/element_parsers/table.py)                      *)

\* how many tr elements the table has in the model
MaxRows == 3

\* how many td/th elements one tr has in the model
MaxRowCells == 3

\* the values of the rowspan and colspan attributes in the model
SpanValues == {1, 2}

HtmlCells == [rowspan : SpanValues, colspan : SpanValues]

HtmlRows == SeqsUpTo(HtmlCells, MaxRowCells) \ {<<>>}

HtmlTables == UNION {[1..k -> HtmlRows] : k \in 1..MaxRows}

\* TableData(rows=0, cols=0, cells=[], mergeRegions=[])
EmptyTableData == [rows |-> 0, cols |-> 0, cells |-> <<>>, mergeRegions |-> <<>>]

\* sum(int(cell.get('colspan', 1)) for cell in cells)
RECURSIVE ColCount(_)
ColCount(row) == IF row = <<>> THEN 0 ELSE row[1].colspan + ColCount(Tail(row))

\* max_cols: the largest col_count of a row
RECURSIVE MaxCols(_)
MaxCols(rows) == IF rows = <<>> THEN 0 ELSE Max(ColCount(rows[1]), MaxCols(Tail(rows)))

\* while col_idx < max_cols and occupied[row_idx][col_idx]: col_idx += 1
RECURSIVE SkipOccupied(_, _, _, _)
SkipOccupied(occupied, row_idx, col_idx, max_cols) ==
    IF col_idx < max_cols /\ <<row_idx, col_idx>> \in occupied
    THEN SkipOccupied(occupied, row_idx, col_idx + 1, max_cols)
    ELSE col_idx

\* a mutant: a cell that spans rows is a vertical merge whatever its colspan
MergeTypeVertical(rowspan, colspan) ==
    IF rowspan = 1 THEN "horizontal" ELSE "vertical"

MergeType(rowspan, colspan) ==
    IF rowspan = 1 THEN "horizontal"
    ELSE IF colspan = 1 THEN "vertical" ELSE "rectangular"

\* the body of the loop over the cells of one row (lines 61-116); st holds
\* occupied, cells and mergeRegions; rows and max_cols are those of the table
RECURSIVE ParseCells(_, _, _, _, _, _)
ParseCells(row, row_idx, col_idx0, st, nrows, max_cols) ==
    IF row = <<>> THEN st
    ELSE
        LET col_idx == SkipOccupied(st.occupied, row_idx, col_idx0, max_cols)
            cell == row[1]
        IN  IF col_idx >= max_cols THEN st
            ELSE
                LET claimed ==
                        {<<r, c>> \in
                            (row_idx..(Min(row_idx + cell.rowspan, nrows) - 1))
                            \X (col_idx..(Min(col_idx + cell.colspan, max_cols) - 1)) : TRUE}
                    region ==
                        [start |-> <<row_idx, col_idx>>,
                         end |-> <<row_idx + cell.rowspan - 1, col_idx + cell.colspan - 1>>,
                         masterCell |-> <<row_idx, col_idx>>,
                         type |-> MergeType(cell.rowspan, cell.colspan)]
                    st2 ==
                        [occupied |-> st.occupied \cup claimed,
                         cells |-> Append(st.cells, [cell |-> <<row_idx, col_idx>>]),
                         mergeRegions |->
                            IF cell.rowspan > 1 \/ cell.colspan > 1
                            THEN Append(st.mergeRegions, region)
                            ELSE st.mergeRegions]
                IN  ParseCells(Tail(row), row_idx, col_idx + 1, st2, nrows, max_cols)

\* the loop over the rows (line 57)
RECURSIVE ParseRows(_, _, _, _, _)
ParseRows(rows, row_idx, st, nrows, max_cols) ==
    IF row_idx >= nrows THEN st
    ELSE ParseRows(rows, row_idx + 1,
                   ParseCells(rows[row_idx + 1], row_idx, 0, st, nrows, max_cols),
                   nrows, max_cols)

\* parse_table: the TableData of the table element
ParseTableData(rows) ==
    LET nrows == Len(rows)
        max_cols == MaxCols(rows)
        st == ParseRows(rows, 0, [occupied |-> {}, cells |-> <<>>, mergeRegions |-> <<>>],
                        nrows, max_cols)
    IN  [rows |-> nrows, cols |-> max_cols, cells |-> st.cells,
         mergeRegions |-> st.mergeRegions]

InitTbl ==
    /\ html_rows \in HtmlTables
    /\ table_data = EmptyTableData
    /\ table_pc = "start"

IdleTbl ==
    /\ html_rows = <<>>
    /\ table_data = EmptyTableData
    /\ table_pc = "parsed"

ParseTable ==
    /\ table_pc = "start"
    /\ table_data' = ParseTableData(html_rows)
    /\ table_pc' = "parsed"
    /\ UNCHANGED <<html_rows, notTblVars>>

-----------------------------------------------------------------------------
(* Marks (models/content_models.py) and merge_adjacent_marks               *)
(* (html_parser/extractors/text_marks.py)                                  *)

\* A mark is a record of its class, its type, its value (ValueMark), its href
\* (LinkMark), the list that a CompositeMark has as its type (names), and
\* its range.
SimpleMark(type, range) ==
    [cls |-> "SimpleMark", type |-> type, value |-> "", href |-> "", names |-> <<>>,
     range |-> range]

ValueMark(type, range, value) ==
    [cls |-> "ValueMark", type |-> type, value |-> value, href |-> "", names |-> <<>>,
     range |-> range]

LinkMark(range, href) ==
    [cls |-> "LinkMark", type |-> "link", value |-> "", href |-> href, names |-> <<>>,
     range |-> range]

CompositeMark(names, range) ==
    [cls |-> "CompositeMark", type |-> "", value |-> "", href |-> "", names |-> names,
     range |-> range]

\* the key of the group of the i-th mark (lines 37-45); id(mark) of a mark of
\* another class is modelled by the mark's position
MarkKey(ms, i) ==
    LET m == ms[i]
    IN  CASE m.cls = "SimpleMark" -> <<"simple", m.type, "">>
          [] m.cls = "ValueMark" -> <<"value", m.type, m.value>>
          [] m.cls = "LinkMark" -> <<"link", m.href, "">>
          [] OTHER -> <<"unknown", ToString(i), "">>

\* the indices at which a key occurs first: the order of mark_groups
FirstOccurrences(ms) ==
    {i \in 1..Len(ms) : \A j \in 1..(i - 1) : MarkKey(ms, j) # MarkKey(ms, i)}

\* the k-th smallest element of a finite set of integers
RECURSIVE SortedSeq(_)
SortedSeq(S) ==
    IF S = {} THEN <<>>
    ELSE LET lo == CHOOSE x \in S : \A y \in S : x <= y
         IN  <<lo>> \o SortedSeq(S \ {lo})

\* mark_groups[key], in the order of the list
GroupOf(ms, i) ==
    LET idx == SortedSeq({j \in 1..Len(ms) : MarkKey(ms, j) = MarkKey(ms, i)})
    IN  [k \in 1..Len(idx) |-> ms[idx[k]]]

\* list.sort(key=lambda m: m.range[0]): a stable sort by the start
RECURSIVE InsertByStart(_, _)
InsertByStart(sorted, m) ==
    IF sorted = <<>> THEN <<m>>
    ELSE IF Last(sorted).range[1] <= m.range[1] THEN Append(sorted, m)
    ELSE Append(InsertByStart(SubSeq(sorted, 1, Len(sorted) - 1), m), Last(sorted))

RECURSIVE SortByStart(_)
SortByStart(ms) ==
    IF ms = <<>> THEN <<>>
    ELSE InsertByStart(SortByStart(SubSeq(ms, 1, Len(ms) - 1)), Last(ms))

\* a mutant: the group is swept in the order of the list
SortGroupNot(group) == group

\* group.sort(key=lambda m: m.range[0]) (line 54)
SortGroup(group) == SortByStart(group)

\* a mutant: a mark is absorbed only when it overlaps, not when it is adjacent
RECURSIVE ExtendOverlapping(_, _, _)
ExtendOverlapping(group, j, end) ==
    IF j <= Len(group) /\ group[j].range[1] < end
    THEN ExtendOverlapping(group, j + 1, Max(end, group[j].range[2]))
    ELSE <<j, end>>

\* a mutant: only the mark next to the current one is looked at
ExtendOnce(group, j, end) ==
    IF j <= Len(group) /\ group[j].range[1] <= end
    THEN <<j + 1, Max(end, group[j].range[2])>>
    ELSE <<j, end>>

\* the inner while loop (lines 64-74): the first index not absorbed, and
\* the end reached
RECURSIVE Extend(_, _, _)
Extend(group, j, end) ==
    IF j <= Len(group) /\ group[j].range[1] <= end
    THEN Extend(group, j + 1, Max(end, group[j].range[2]))
    ELSE <<j, end>>

\* the outer while loop (lines 58-87) from index i on
RECURSIVE MergeGroup(_, _)
MergeGroup(group, i) ==
    IF i > Len(group) THEN <<>>
    ELSE LET current_mark == group[i]
             je == Extend(group, i + 1, current_mark.range[2])
             range == <<current_mark.range[1], je[2]>>
             out == CASE current_mark.cls = "SimpleMark" ->
                            SimpleMark(current_mark.type, range)
                      [] current_mark.cls = "ValueMark" ->
                            ValueMark(current_mark.type, range, current_mark.value)
                      [] current_mark.cls = "LinkMark" ->
                            LinkMark(range, current_mark.href)
                      [] OTHER -> current_mark
         IN  <<out>> \o MergeGroup(group, je[1])

\* the loop over mark_groups (line 52)
RECURSIVE MergeGroups(_, _)
MergeGroups(ms, firsts) ==
    IF firsts = <<>> THEN <<>>
    ELSE MergeGroup(SortGroup(GroupOf(ms, firsts[1])), 1)
            \o MergeGroups(ms, Tail(firsts))

MergeAdjacentMarks(ms) ==
    IF ms = <<>> THEN ms
    ELSE SortByStart(MergeGroups(ms, SortedSeq(FirstOccurrences(ms))))

-----------------------------------------------------------------------------
(* extract_text_and_marks (html_parser/extractors/text_marks.py)           *)

\* A node of the parsed HTML: a text node (tag "#text") holds its characters,
\* an element its tag, its style attribute as a list of declarations, its
\* href and its children.
TextNode(text) ==
    [tag |-> "#text", text |-> text, style |-> <<>>, href |-> "", children |-> <<>>]

ElementNode(tag, style, href, children) ==
    [tag |-> tag, text |-> <<>>, style |-> style, href |-> href, children |-> children]

Decl(name, value) == [name |-> name, value |-> value]

\* re.search(name + r':\s*([^;]+)', style_attr): the value of the first
\* declaration with one of these names, <<>> when there is none
StyleMatch(style, names) ==
    LET idx == {i \in 1..Len(style) : style[i].name \in names}
    IN  IF idx = {} THEN <<>>
        ELSE <<style[CHOOSE i \in idx : \A j \in idx : i <= j].value>>

\* the descriptors a tag name adds (lines 146-164)
TagDescriptors(node) ==
    CASE node.tag \in {"strong", "b"} -> <<[type |-> "simple", name |-> "bold", value |-> ""]>>
      [] node.tag \in {"em", "i"} -> <<[type |-> "simple", name |-> "italic", value |-> ""]>>
      [] node.tag = "u" -> <<[type |-> "simple", name |-> "underline", value |-> ""]>>
      [] node.tag \in {"s", "strike", "del"} ->
            <<[type |-> "simple", name |-> "strike", value |-> ""]>>
      [] node.tag = "code" -> <<[type |-> "simple", name |-> "code", value |-> ""]>>
      [] node.tag = "sup" -> <<[type |-> "simple", name |-> "superscript", value |-> ""]>>
      [] node.tag = "sub" -> <<[type |-> "simple", name |-> "subscript", value |-> ""]>>
      [] node.tag = "a" -> <<[type |-> "link", name |-> "link", value |-> node.href]>>
      [] OTHER -> <<>>

ValueDescriptor(style, names, mark_name) ==
    LET v == StyleMatch(style, names)
    IN  IF v = <<>> THEN <<>>
        ELSE <<[type |-> "value", name |-> mark_name, value |-> v[1]]>>

\* the descriptors a style attribute adds (lines 167-196); the values
\* of text-decoration in the model are "underline", "line-through" and
\* "underline line-through"
StyleDescriptors(style) ==
    LET deco == StyleMatch(style, {"text-decoration"})
    IN  ValueDescriptor(style, {"background", "background-color"}, "backgroundColor")
        \o ValueDescriptor(style, {"color"}, "color")
        \o ValueDescriptor(style, {"font-size"}, "fontSize")
        \o ValueDescriptor(style, {"font-family"}, "fontFamily")
        \o (IF deco # <<>> /\ deco[1] \in {"underline", "underline line-through"}
            THEN <<[type |-> "simple", name |-> "underline", value |-> ""]>> ELSE <<>>)
        \o (IF deco # <<>> /\ deco[1] \in {"line-through", "underline line-through"}
            THEN <<[type |-> "simple", name |-> "strike", value |-> ""]>> ELSE <<>>)

\* the marks of one text node, one per descriptor (lines 128-136)
DescriptorMarks(current_marks, range) ==
    [k \in 1..Len(current_marks) |->
        CASE current_marks[k].type = "simple" -> SimpleMark(current_marks[k].name, range)
          [] current_marks[k].type = "link" -> LinkMark(range, current_marks[k].value)
          [] OTHER -> ValueMark(current_marks[k].name, range, current_marks[k].value)]

\* traverse(node, current_marks) (lines 113-200); acc holds full_text and marks
RECURSIVE Traverse(_, _, _)
RECURSIVE TraverseChildren(_, _, _)
Traverse(node, current_marks, acc) ==
    IF node.tag = "#text"
    THEN IF node.text = <<>> THEN acc
         ELSE LET start_idx == Len(acc.full_text)
                  end_idx == start_idx + Len(node.text)
              IN  [full_text |-> acc.full_text \o node.text,
                   marks |-> acc.marks \o DescriptorMarks(current_marks, <<start_idx, end_idx>>)]
    ELSE TraverseChildren(node.children,
                          current_marks \o TagDescriptors(node) \o StyleDescriptors(node.style),
                          acc)

TraverseChildren(children, new_marks, acc) ==
    IF children = <<>> THEN acc
    ELSE TraverseChildren(Tail(children), new_marks, Traverse(children[1], new_marks, acc))

ExtractTextAndMarks(el) ==
    LET acc == Traverse(el, <<>>, [full_text |-> <<>>, marks |-> <<>>])
    IN  [full_text |-> acc.full_text, marks |-> MergeAdjacentMarks(acc.marks)]

-----------------------------------------------------------------------------
(* The inputs and the calls of the mark operations.                        *)

\* how many marks a list given to merge_adjacent_marks has in the model
MaxMarks == 3

\* how many children the element given to extract_text_and_marks has
MaxChildren == 2

\* the offsets of the ranges in the model
MarkOffsets == 0..3

\* the ranges that are not empty, and an empty one
MarkRanges == {r \in MarkOffsets \X MarkOffsets : r[1] < r[2]} \cup {<<1, 1>>}

MarkPool ==
    {SimpleMark("bold", r) : r \in MarkRanges}
    \cup {ValueMark("color", r, v) : r \in MarkRanges, v \in {"red", "blue"}}

MarkLists == SeqsUpTo(MarkPool, MaxMarks)

InlineTexts == {<<"A", "B">>, <<"C", "D">>}

InlineStyles ==
    {<<>>, <<Decl("font-size", "12pt")>>, <<Decl("font-size", "14pt")>>}

\* text, or one element around text
Inline1 ==
    {TextNode(t) : t \in InlineTexts}
    \cup {ElementNode(tag, st, "", <<TextNode(t)>>) :
            tag \in {"span", "strong", "em"}, st \in InlineStyles, t \in InlineTexts}

\* and an element around one of those elements
Inline2 ==
    Inline1 \cup {ElementNode(tag, <<>>, "", <<n>>) :
                    tag \in {"strong", "em"}, n \in {x \in Inline1 : x.tag # "#text"}}

ParagraphElements ==
    {ElementNode("p", <<>>, "", ch) : ch \in SeqsUpTo(Inline2, MaxChildren)}

NoElement == ElementNode("p", <<>>, "", <<>>)

NoExtract == [full_text |-> <<>>, marks |-> <<>>]

\* Permutations of 1..n as functions
Perms(n) == {f \in [1..n -> 1..n] : \A i, j \in 1..n : f[i] = f[j] => i = j}

InitMark ==
    /\ \/ marks \in MarkLists /\ element = NoElement
       \/ marks = <<>> /\ element \in ParagraphElements
    /\ merged_marks = <<>>
    /\ remerged_marks = <<>>
    /\ perm_marks = <<>>
    /\ extracted = NoExtract
    /\ mark_pc = "start"

IdleMark ==
    /\ marks = <<>>
    /\ element = NoElement
    /\ merged_marks = <<>>
    /\ remerged_marks = <<>>
    /\ perm_marks = <<>>
    /\ extracted = NoExtract
    /\ mark_pc = "idle"

\* merged = merge_adjacent_marks(marks)
MergeOnce ==
    /\ mark_pc = "start"
    /\ merged_marks' = MergeAdjacentMarks(marks)
    /\ mark_pc' = "merged"
    /\ UNCHANGED <<marks, remerged_marks, perm_marks, element, extracted, notMarkVars>>

\* merge_adjacent_marks(merged)
MergeAgain ==
    /\ mark_pc = "merged"
    /\ remerged_marks' = MergeAdjacentMarks(merged_marks)
    /\ mark_pc' = "remerged"
    /\ UNCHANGED <<marks, merged_marks, perm_marks, element, extracted, notMarkVars>>

\* merge_adjacent_marks of the list in another order
MergePermuted(p) ==
    /\ mark_pc = "merged"
    /\ perm_marks' = MergeAdjacentMarks([k \in 1..Len(marks) |-> marks[p[k]]])
    /\ mark_pc' = "permuted"
    /\ UNCHANGED <<marks, merged_marks, remerged_marks, element, extracted, notMarkVars>>

\* extract_text_and_marks(element)
Extract ==
    /\ mark_pc = "start"
    /\ extracted' = ExtractTextAndMarks(element)
    /\ mark_pc' = "extracted"
    /\ UNCHANGED <<marks, merged_marks, remerged_marks, perm_marks, element, notMarkVars>>

-----------------------------------------------------------------------------
(* Resegmentation: WangEditorRenderer._apply_marks (wangeditor_renderer.py) *)
(* and add_text_with_marks (docx_exporter/block_processors/paragraph.py).  *)

\* html.escape of one character
Escape(ch) ==
    CASE ch = "&" -> "&amp;"
      [] ch = "<" -> "&lt;"
      [] ch = ">" -> "&gt;"
      [] ch = "\"" -> "&quot;"
      [] ch = "'" -> "&#x27;"
      [] OTHER -> ch

EscapeText(text) == [k \in 1..Len(text) |-> Escape(text[k])]

\* text[start:end] of Python: a negative index counts from the end
PyIndex(i, n) == IF i < 0 THEN Max(i + n, 0) ELSE Min(i, n)

PySlice(text, start, end) ==
    LET s == PyIndex(start, Len(text))
        e == PyIndex(end, Len(text))
    IN  IF s < e THEN SubSeq(text, s + 1, e) ELSE <<>>

\* boundaries (lines 293-297)
Boundaries(text, ms) ==
    {0, Len(text)}
    \cup {Max(0, ms[k].range[1]) : k \in 1..Len(ms)}
    \cup {Min(Len(text), ms[k].range[2]) : k \in 1..Len(ms)}

\* active_marks (lines 314-317)
ActiveMarks(ms, start, end) ==
    LET Covers(m) == m.range[1] <= start /\ m.range[2] >= end
    IN  SelectSeq(ms, Covers)

OfClass(ms, cls) ==
    LET Is(m) == m.cls = cls
    IN  SelectSeq(ms, Is)

\* the tag of a simple mark (lines 330-343), "" when no branch matches
SimpleTag(type) ==
    CASE type = "bold" -> "strong"
      [] type = "italic" -> "em"
      [] type = "underline" -> "u"
      [] type = "strike" -> "s"
      [] type = "code" -> "code"
      [] type = "superscript" -> "sup"
      [] type = "subscript" -> "sub"
      [] OTHER -> ""

\* for mark in reversed(simple_marks) (line 329)
RECURSIVE WrapSimple(_, _)
WrapSimple(node, simple_marks) ==
    IF simple_marks = <<>> THEN node
    ELSE LET tag == SimpleTag(Last(simple_marks).type)
             inner == IF tag = "" THEN node ELSE ElementNode(tag, <<>>, "", <<node>>)
         IN  WrapSimple(inner, SubSeq(simple_marks, 1, Len(simple_marks) - 1))

\* styles (lines 347-356)
RECURSIVE ValueStyles(_)
ValueStyles(value_marks) ==
    IF value_marks = <<>> THEN <<>>
    ELSE LET mark == value_marks[1]
             name == CASE mark.type = "color" -> "color"
                       [] mark.type = "backgroundColor" -> "background-color"
                       [] mark.type = "fontSize" -> "font-size"
                       [] mark.type = "fontFamily" -> "font-family"
                       [] OTHER -> ""
         IN  (IF name = "" THEN <<>> ELSE <<Decl(name, mark.value)>>)
             \o ValueStyles(Tail(value_marks))

\* the span around the segment (lines 346-364)
WrapValue(node, value_marks) ==
    IF ValueStyles(value_marks) = <<>> THEN node
    ELSE ElementNode("span", ValueStyles(value_marks), "", <<node>>)

\* for mark in link_marks (lines 367-368)
RECURSIVE WrapLinks(_, _)
WrapLinks(node, link_marks) ==
    IF link_marks = <<>> THEN node
    ELSE WrapLinks(ElementNode("a", <<>>, link_marks[1].href, <<node>>), Tail(link_marks))

\* current_html of one segment (lines 309-368); the text of a rendered node
\* is escaped
SegmentHtml(segment, active_marks) ==
    WrapLinks(
        WrapValue(
            WrapSimple(TextNode(EscapeText(segment)), OfClass(active_marks, "SimpleMark")),
            OfClass(active_marks, "ValueMark")),
        OfClass(active_marks, "LinkMark"))

\* the loop over sorted_boundaries (lines 304-370) from index i on
RECURSIVE ApplyLoop(_, _, _, _)
ApplyLoop(text, ms, sorted_boundaries, i) ==
    IF i > Len(sorted_boundaries) - 1 THEN <<>>
    ELSE LET start == sorted_boundaries[i]
             end == sorted_boundaries[i + 1]
             segment == PySlice(text, start, end)
             active_marks == ActiveMarks(ms, start, end)
         IN  (IF segment = <<>> THEN <<>>
              ELSE <<[start |-> start, end |-> end, text |-> segment,
                      active |-> active_marks,
                      html |-> SegmentHtml(segment, active_marks)]>>)
             \o ApplyLoop(text, ms, sorted_boundaries, i + 1)

\* _apply_marks: what it appends to result, piece by piece
ApplyMarks(text, ms) ==
    IF ms = <<>>
    THEN IF text = <<>> THEN <<>>
         ELSE <<[start |-> 0, end |-> Len(text), text |-> text, active |-> <<>>,
                 html |-> TextNode(EscapeText(text))]>>
    ELSE ApplyLoop(text, ms, SortedSeq(Boundaries(text, ms)), 1)

\* char_marks[i].append(mark) (line 78) raises IndexError when i < -len(text)
AddTextRaises(text, ms) ==
    \E k \in 1..Len(ms) :
        /\ ms[k].range[1] < Min(ms[k].range[2], Len(text))
        /\ ms[k].range[1] < 0 - Len(text)

\* char_marks[c] (lines 74-78): each mark once for every i of its range that
\* indexes the character c, a negative i counting from the end
RECURSIVE CharMarks(_, _, _)
CharMarks(text, ms, c) ==
    IF ms = <<>> THEN <<>>
    ELSE LET mark == ms[1]
             hits == {i \in mark.range[1]..(Min(mark.range[2], Len(text)) - 1) :
                        \/ i >= 0 /\ i = c
                        \/ i < 0 /\ i + Len(text) = c}
         IN  Repeat(mark, Cardinality(hits)) \o CharMarks(text, Tail(ms), c)

\* the loop that joins the characters of equal marks (lines 85-92)
RECURSIVE JoinLoop(_, _, _, _, _)
JoinLoop(text, ms, i, current_start, current_marks) ==
    IF i >= Len(text)
    THEN <<[start |-> current_start, end |-> Len(text),
            text |-> PySlice(text, current_start, Len(text)), active |-> current_marks]>>
    ELSE IF CharMarks(text, ms, i) # current_marks
         THEN <<[start |-> current_start, end |-> i,
                 text |-> PySlice(text, current_start, i), active |-> current_marks]>>
              \o JoinLoop(text, ms, i + 1, i, CharMarks(text, ms, i))
         ELSE JoinLoop(text, ms, i + 1, current_start, current_marks)

\* add_text_with_marks: the runs it adds, as start, end, text, marks
AddTextWithMarks(text, ms) ==
    IF text = <<>> THEN <<>>
    ELSE IF ms = <<>>
         THEN <<[start |-> 0, end |-> Len(text), text |-> text, active |-> <<>>]>>
         ELSE JoinLoop(text, ms, 1, 0, CharMarks(text, ms, 0))

\* how long a text is in the model
MaxTextLen == 3

\* how many marks a block has in the model
MaxSegMarks == 2

\* the characters of the texts in the model, in their order
TextChars == <<"a", "<", "c", "&", "e", "f">>

SegTexts ==
    {[k \in 1..n |-> TextChars[((k - 1) % Len(TextChars)) + 1]] : n \in 0..MaxTextLen}

\* the offsets of the ranges: from before the text to behind it
SegOffsets == (0 - MaxTextLen - 1)..(MaxTextLen + 1)

SegRanges == {r \in SegOffsets \X SegOffsets : r[1] <= r[2]}

SegMarkPool ==
    {SimpleMark("bold", r) : r \in SegRanges}
    \cup {SimpleMark("italic", r) : r \in SegRanges}
    \cup {ValueMark("color", r, "red") : r \in SegRanges}
    \cup {CompositeMark(<<"bold", "italic", "underline">>, r) : r \in SegRanges}

SegMarkLists == SeqsUpTo(SegMarkPool, MaxSegMarks)

InitSeg ==
    /\ seg_text \in SegTexts
    /\ seg_marks \in SegMarkLists
    /\ seg_segments = <<>>
    /\ seg_html = <<>>
    /\ seg_pc = "start"

IdleSeg ==
    /\ seg_text = <<>>
    /\ seg_marks = <<>>
    /\ seg_segments = <<>>
    /\ seg_html = <<>>
    /\ seg_pc = "idle"

\* self._apply_marks(text, marks)
RenderMarks ==
    /\ seg_pc = "start"
    /\ LET out == ApplyMarks(seg_text, seg_marks)
       IN  /\ seg_segments' = [k \in 1..Len(out) |->
                                 [start |-> out[k].start, end |-> out[k].end,
                                  text |-> out[k].text, active |-> out[k].active]]
           /\ seg_html' = [k \in 1..Len(out) |-> out[k].html]
    /\ seg_pc' = "rendered"
    /\ UNCHANGED <<seg_text, seg_marks, notSegVars>>

\* add_text_with_marks(para, text, marks) returns
ExportMarks ==
    /\ seg_pc = "start"
    /\ ~AddTextRaises(seg_text, seg_marks) \/ seg_text = <<>> \/ seg_marks = <<>>
    /\ seg_segments' = AddTextWithMarks(seg_text, seg_marks)
    /\ seg_pc' = "exported"
    /\ UNCHANGED <<seg_text, seg_marks, seg_html, notSegVars>>

\* add_text_with_marks(para, text, marks) raises IndexError
ExportMarksRaises ==
    /\ seg_pc = "start"
    /\ seg_text # <<>> /\ seg_marks # <<>>
    /\ AddTextRaises(seg_text, seg_marks)
    /\ seg_pc' = "raised"
    /\ UNCHANGED <<seg_text, seg_marks, seg_segments, seg_html, notSegVars>>

-----------------------------------------------------------------------------
(* WangEditorRenderer.render (wangeditor_renderer.py) and HtmlParser.parse *)
(* (html_parser/parser.py, element_parsers/).  The blocks of the model are *)
(* paragraphs (list items among them), headings and dividers; the style    *)
(* sheet has no rules, so that no block has a style attribute.             *)

\* None, for an Optional[int]
NoneInt == -1

\* ParagraphAttrs(listType, listLevel, listStart); "" is None for listType
ParagraphAttrs(listType, listLevel, listStart) ==
    [listType |-> listType, listLevel |-> listLevel, listStart |-> listStart]

\* a block: attrs is <<>> (None) or <<ParagraphAttrs>>; level is 0 but for
\* a heading
ParagraphBlock(text, ms, attrs) ==
    [type |-> "paragraph", text |-> text, marks |-> ms, level |-> 0, attrs |-> attrs]

HeadingBlock(level, text, ms) ==
    [type |-> "heading", text |-> text, marks |-> ms, level |-> level, attrs |-> <<>>]

DividerBlock ==
    [type |-> "divider", text |-> <<>>, marks |-> <<>>, level |-> 0, attrs |-> <<>>]

\* x or 0
OrZero(x) == IF x = NoneInt THEN 0 ELSE x

\* isinstance(block, ParagraphBlock) and block.attrs and block.attrs.listType
\* and block.attrs.listType != 'none' (line 49)
IsListItem(block) ==
    /\ block.type = "paragraph"
    /\ block.attrs # <<>>
    /\ block.attrs[1].listType \notin {"", "none"}

\* a mutant: the group continues whatever the level of the next item
RECURSIVE GroupEndAnyLevel(_, _, _, _)
GroupEndAnyLevel(bs, j, list_type, list_level) ==
    IF /\ j <= Len(bs)
       /\ bs[j].type = "paragraph"
       /\ bs[j].attrs # <<>>
       /\ bs[j].attrs[1].listType = list_type
    THEN GroupEndAnyLevel(bs, j + 1, list_type, list_level)
    ELSE j

\* the index behind the list items that continue the group (lines 55-65)
RECURSIVE GroupEnd(_, _, _, _)
GroupEnd(bs, j, list_type, list_level) ==
    IF /\ j <= Len(bs)
       /\ bs[j].type = "paragraph"
       /\ bs[j].attrs # <<>>
       /\ bs[j].attrs[1].listType = list_type
       /\ OrZero(bs[j].attrs[1].listLevel) = list_level
    THEN GroupEnd(bs, j + 1, list_type, list_level)
    ELSE j

\* formatted_text = self._apply_marks(text, marks)
FormattedText(text, ms) ==
    LET out == ApplyMarks(text, ms)
    IN  [k \in 1..Len(out) |-> out[k].html]

\* _render_list_group
RenderListGroup(items, list_type, level) ==
    LET tag == IF list_type = "bullet" THEN "ul" ELSE "ol"
        li_parts == [k \in 1..Len(items) |->
                        ElementNode("li", <<>>, "",
                                    FormattedText(items[k].text, items[k].marks))]
        indent_style == IF level > 0
                        THEN <<Decl("margin-left", ToString(level * 2) \o "em")>>
                        ELSE <<>>
    IN  ElementNode(tag, indent_style, "", li_parts)

\* _render_block: _render_paragraph, _render_heading, _render_divider
RenderBlock(block) ==
    CASE block.type = "paragraph" ->
            ElementNode("p", <<>>, "", FormattedText(block.text, block.marks))
      [] block.type = "heading" ->
            ElementNode("h" \o ToString(block.level), <<>>, "",
                        FormattedText(block.text, block.marks))
      [] OTHER -> ElementNode("hr", <<>>, "", <<>>)

\* the loop of render (lines 44-75): html_parts from block i on
RECURSIVE RenderParts(_, _)
RenderParts(bs, i) ==
    IF i > Len(bs) THEN <<>>
    ELSE IF IsListItem(bs[i])
         THEN LET list_type == bs[i].attrs[1].listType
                  list_level == OrZero(bs[i].attrs[1].listLevel)
                  j == GroupEnd(bs, i + 1, list_type, list_level)
              IN  <<RenderListGroup(SubSeq(bs, i, j - 1), list_type, list_level)>>
                  \o RenderParts(bs, j)
         ELSE <<RenderBlock(bs[i])>> \o RenderParts(bs, i + 1)

\* "\n".join(html_parts)
RECURSIVE JoinLines(_)
JoinLines(html_parts) ==
    IF Len(html_parts) <= 1 THEN html_parts
    ELSE <<html_parts[1], TextNode(<<"\n">>)>> \o JoinLines(Tail(html_parts))

Render(bs) == JoinLines(RenderParts(bs, 1))

\* BeautifulSoup(html_content, 'html.parser'): a character reference becomes
\* its character again, and text next to text is one string
Unescape(ent) ==
    CASE ent = "&amp;" -> "&"
      [] ent = "&lt;" -> "<"
      [] ent = "&gt;" -> ">"
      [] ent = "&quot;" -> "\""
      [] ent = "&#x27;" -> "'"
      [] OTHER -> ent

RECURSIVE Soup(_)
RECURSIVE SoupNodes(_, _)
Soup(node) ==
    IF node.tag = "#text"
    THEN TextNode([k \in 1..Len(node.text) |-> Unescape(node.text[k])])
    ELSE ElementNode(node.tag, node.style, node.href, SoupNodes(node.children, <<>>))

SoupNodes(nodes, done) ==
    IF nodes = <<>> THEN done
    ELSE LET n == Soup(nodes[1])
         IN  IF n.tag = "#text" /\ done # <<>> /\ Last(done).tag = "#text"
             THEN SoupNodes(Tail(nodes),
                            Append(SubSeq(done, 1, Len(done) - 1),
                                   TextNode(Last(done).text \o n.text)))
             ELSE SoupNodes(Tail(nodes), Append(done, n))

\* str.strip()
Whitespace == {" ", "\n", "\t", "\r"}

RECURSIVE Strip(_)
Strip(text) ==
    IF text = <<>> THEN text
    ELSE IF text[1] \in Whitespace THEN Strip(Tail(text))
    ELSE IF Last(text) \in Whitespace THEN Strip(SubSeq(text, 1, Len(text) - 1))
    ELSE text

\* parse_paragraph
ParseParagraph(el) ==
    LET tm == ExtractTextAndMarks(el)
    IN  ParagraphBlock(tm.full_text, tm.marks, <<>>)

HeadingTags == {"h" \o ToString(n) : n \in 1..6}

\* parse_heading: level = int(element.name[1])
ParseHeading(el) ==
    LET tm == ExtractTextAndMarks(el)
        level == CHOOSE n \in 1..6 : el.tag = "h" \o ToString(n)
    IN  HeadingBlock(level, tm.full_text, tm.marks)

\* li.find(['ul', 'ol'], recursive=False): <<>> when there is none
FirstNestedList(children) ==
    LET idx == {k \in 1..Len(children) : children[k].tag \in {"ul", "ol"}}
    IN  IF idx = {} THEN <<>>
        ELSE <<children[CHOOSE k \in idx : \A l \in idx : k <= l]>>

\* parse_list_items: the blocks with the list's items appended; the list
\* has no start attribute in the HTML of the renderer, so start is 1
RECURSIVE ParseListItems(_, _, _, _)
RECURSIVE ParseListChildren(_, _, _, _)
ParseListItems(el, list_type, level, bs) ==
    ParseListChildren(el.children, list_type, level, bs)

ParseListChildren(children, list_type, level, bs) ==
    IF children = <<>> THEN bs
    ELSE IF children[1].tag # "li"
         THEN ParseListChildren(Tail(children), list_type, level, bs)
         ELSE LET li == children[1]
                  tm == ExtractTextAndMarks(li)
                  attrs == ParagraphAttrs(list_type, level,
                                          IF list_type = "ordered" THEN 1 ELSE NoneInt)
                  bs1 == Append(bs, ParagraphBlock(tm.full_text, tm.marks, <<attrs>>))
                  nested == FirstNestedList(li.children)
                  bs2 == IF nested = <<>> THEN bs1
                         ELSE ParseListItems(nested[1],
                                             IF nested[1].tag = "ul" THEN "bullet"
                                             ELSE "ordered",
                                             level + 1, bs1)
              IN  ParseListChildren(Tail(children), list_type, level, bs2)

\* _parse_element and the append of its caller, for the tags of the blocks
\* of the model; any other tag here returns None (line 177)
ParseElement(el, bs) ==
    CASE el.tag = "p" -> Append(bs, ParseParagraph(el))
      [] el.tag \in HeadingTags -> Append(bs, ParseHeading(el))
      [] el.tag \in {"ul", "ol"} ->
            ParseListItems(el, IF el.tag = "ul" THEN "bullet" ELSE "ordered", 0, bs)
      [] el.tag = "hr" -> Append(bs, DividerBlock)
      [] OTHER -> bs

\* _parse_body: the loop over body.children
RECURSIVE ParseBody(_, _)
ParseBody(nodes, bs) ==
    IF nodes = <<>> THEN bs
    ELSE IF nodes[1].tag = "#text"
         THEN LET text == Strip(nodes[1].text)
              IN  ParseBody(Tail(nodes),
                            IF text # <<>> THEN Append(bs, ParagraphBlock(text, <<>>, <<>>))
                            ELSE bs)
         ELSE ParseBody(Tail(nodes), ParseElement(nodes[1], bs))

\* HtmlParser(html).parse(): the blocks of its Content
Parse(html_nodes) == ParseBody(SoupNodes(html_nodes, <<>>), <<>>)

\* how many blocks a Content has in the model
MaxRTBlocks == 2

RTText == <<"a", "<">>

RTMarkPool ==
    {SimpleMark("bold", <<0, 1>>), SimpleMark("italic", <<0, 2>>),
     ValueMark("color", <<1, 2>>, "red"), ValueMark("color", <<0, 2>>, "blue")}

RTMarkLists == SeqsUpTo(RTMarkPool, 2)

RTAttrs ==
    {<<>>,
     <<ParagraphAttrs("bullet", 0, NoneInt)>>,
     <<ParagraphAttrs("bullet", 1, NoneInt)>>,
     <<ParagraphAttrs("ordered", 0, 1)>>}

RTBlocks ==
    {ParagraphBlock(RTText, ms, attrs) : ms \in RTMarkLists, attrs \in RTAttrs}
    \cup {HeadingBlock(level, RTText, ms) :
            level \in {1, 2}, ms \in {<<>>, <<SimpleMark("bold", <<0, 1>>)>>}}
    \cup {DividerBlock}

RTContents == SeqsUpTo(RTBlocks, MaxRTBlocks)

\* longer contents without marks: paragraphs in and out of lists, a divider
MaxListBlocks == 4

ListAttrs ==
    RTAttrs \cup {<<ParagraphAttrs("bullet", NoneInt, NoneInt)>>,
                  <<ParagraphAttrs("none", NoneInt, NoneInt)>>}

ListBlocks == {ParagraphBlock(RTText, <<>>, attrs) : attrs \in ListAttrs} \cup {DividerBlock}

ListContents == SeqsUpTo(ListBlocks, MaxListBlocks)

InitRt ==
    /\ rt_content \in RTContents \cup ListContents
    /\ rt_html = <<>>
    /\ rt_parsed = <<>>
    /\ rt_pc = "start"

IdleRt ==
    /\ rt_content = <<>>
    /\ rt_html = <<>>
    /\ rt_parsed = <<>>
    /\ rt_pc = "idle"

\* WangEditorRenderer(content, stylesheet).render()
RenderContent ==
    /\ rt_pc = "start"
    /\ rt_html' = Render(rt_content)
    /\ rt_pc' = "rendered"
    /\ UNCHANGED <<rt_content, rt_parsed, notRtVars>>

\* HtmlParser(html).parse()
ParseHtml ==
    /\ rt_pc = "rendered"
    /\ rt_parsed' = Parse(rt_html)
    /\ rt_pc' = "parsed"
    /\ UNCHANGED <<rt_content, rt_html, notRtVars>>

-----------------------------------------------------------------------------
(* HtmlParser.parse and the attributes it converts with int()              *)
(* (parser.py, element_parsers/table.py, element_parsers/list.py)          *)

\* how many children the body has in the model
MaxParseElements == 2

Digits == <<"0", "1", "2", "3", "4", "5", "6", "7", "8", "9">>

DigitValue(ch) == (CHOOSE k \in 1..10 : Digits[k] = ch) - 1

IsDigit(ch) == \E k \in 1..10 : Digits[k] = ch

RECURSIVE DecimalValue(_)
DecimalValue(chars) ==
    IF chars = <<>> THEN 0
    ELSE 10 * DecimalValue(SubSeq(chars, 1, Len(chars) - 1)) + DigitValue(Last(chars))

\* int(s) of a str: blanks around it are dropped, a sign may lead, and the
\* rest is one or more decimal digits; anything else is a ValueError
PyInt(chars) ==
    LET body == Strip(chars)
        signed == body # <<>> /\ body[1] \in {"-", "+"}
        digits == IF signed THEN Tail(body) ELSE body
        ok == digits # <<>> /\ \A k \in 1..Len(digits) : IsDigit(digits[k])
    IN  [ok |-> ok,
         value |-> IF ~ok THEN 0
                   ELSE IF signed /\ body[1] = "-" THEN 0 - DecimalValue(digits)
                   ELSE DecimalValue(digits)]

\* int(tag.get(name, 1)): an attribute is <<>> when the tag has none, else
\* <<value>>
AttrInt(attr) == IF attr = <<>> THEN [ok |-> TRUE, value |-> 1] ELSE PyInt(attr[1])

\* the attribute values of the model: "2", " 2", "0", "-1", "", "a", "2.5"
AttrStrings ==
    {<<"2">>, <<" ", "2">>, <<"0">>, <<"-", "1">>, <<>>, <<"a">>, <<"2", ".", "5">>}

Attrs == {<<>>} \cup {<<v>> : v \in AttrStrings}

\* an element of the body: a table has one tr with `items` td, a list has
\* `items` li
HtmlElement(tag, rowspan, colspan, start, items) ==
    [tag |-> tag, rowspan |-> rowspan, colspan |-> colspan, start |-> start,
     items |-> items]

HtmlElements ==
    {HtmlElement(tag, <<>>, <<>>, <<>>, 0) : tag \in {"p", "span", "blockquote"}}
    \cup {HtmlElement("table", rs, cs, <<>>, 1) : rs \in Attrs, cs \in Attrs}
    \cup {HtmlElement("table", <<<<"a">>>>, <<<<"a">>>>, <<>>, 0)}
    \cup {HtmlElement("ol", <<>>, <<>>, st, n) : st \in Attrs, n \in {0, 1}}
    \cup {HtmlElement("ul", <<>>, <<>>, st, 1) : st \in {<<>>, <<<<"a">>>>}}

\* parse_table on a table of one row: colspan is converted for max_cols
\* (line 47), rowspan and colspan again for a cell that has a column
\* (lines 69-70); raised when an int() raised
ParseTableElement(el) ==
    IF el.items = 0
    THEN [raised |-> FALSE, blocks |-> <<[type |-> "table",
                                           data |-> ParseTableData(<<<<>>>>)]>>]
    ELSE LET cs == AttrInt(el.colspan)
             rs == AttrInt(el.rowspan)
             max_cols == Max(0, cs.value)
         IN  IF ~cs.ok \/ (max_cols > 0 /\ ~rs.ok)
             THEN [raised |-> TRUE, blocks |-> <<>>]
             ELSE [raised |-> FALSE,
                   blocks |-> <<[type |-> "table",
                                 data |-> ParseTableData(
                                     <<<<[rowspan |-> rs.value, colspan |-> cs.value]>>>>)]>>]

\* parse_list_items: one paragraph per li; an ordered list converts its
\* start attribute for every li (lines 49-51)
ParseListElement(el) ==
    LET list_type == IF el.tag = "ul" THEN "bullet" ELSE "ordered"
        st == AttrInt(el.start)
    IN  IF el.items = 0 THEN [raised |-> FALSE, blocks |-> <<>>]
        ELSE IF list_type = "ordered" /\ ~st.ok THEN [raised |-> TRUE, blocks |-> <<>>]
        ELSE [raised |-> FALSE,
              blocks |-> <<[type |-> "paragraph",
                            listType |-> list_type,
                            listStart |-> IF list_type = "ordered" THEN st.value
                                          ELSE NoneInt]>>]

\* HtmlParser._parse_element: the blocks the element adds
ParseElementAttrs(el) ==
    CASE el.tag = "p" ->
            [raised |-> FALSE,
             blocks |-> <<[type |-> "paragraph", listType |-> "", listStart |-> NoneInt]>>]
      [] el.tag = "table" -> ParseTableElement(el)
      [] el.tag \in {"ul", "ol"} -> ParseListElement(el)
      [] OTHER -> [raised |-> FALSE, blocks |-> <<>>]

\* HtmlParser._parse_body: self.blocks after the loop, or as the exception
\* left it
RECURSIVE ParseBodyAttrs(_, _)
ParseBodyAttrs(els, bs) ==
    IF els = <<>> THEN [raised |-> FALSE, blocks |-> bs]
    ELSE LET r == ParseElementAttrs(els[1])
         IN  IF r.raised THEN [raised |-> TRUE, blocks |-> bs]
             ELSE ParseBodyAttrs(Tail(els), bs \o r.blocks)

InitPa ==
    /\ pa_elements \in SeqsUpTo(HtmlElements, MaxParseElements)
    /\ pa_blocks = <<>>
    /\ pa_pc = "start"

IdlePa ==
    /\ pa_elements = <<>>
    /\ pa_blocks = <<>>
    /\ pa_pc = "idle"

\* HtmlParser(html).parse() returns (Content, StyleSheet)
ParseReturns ==
    /\ pa_pc = "start"
    /\ ~ParseBodyAttrs(pa_elements, <<>>).raised
    /\ pa_blocks' = ParseBodyAttrs(pa_elements, <<>>).blocks
    /\ pa_pc' = "returned"
    /\ UNCHANGED <<pa_elements, notPaVars>>

\* HtmlParser(html).parse() raises the ValueError of an int()
ParseRaises ==
    /\ pa_pc = "start"
    /\ ParseBodyAttrs(pa_elements, <<>>).raised
    /\ pa_blocks' = ParseBodyAttrs(pa_elements, <<>>).blocks
    /\ pa_pc' = "raised"
    /\ UNCHANGED <<pa_elements, notPaVars>>

-----------------------------------------------------------------------------
(* DocxExporter (docx_exporter/exporter.py), add_heading, add_paragraph,   *)
(* apply_default_style_to_run, apply_marks_to_run                          *)
(*                                                                         *)
(* SpecInit is the constructor.  SpecExp is export() on an exporter whose  *)
(* attributes hold what the constructor assigns to them in lines 51-76.    *)

\* how many blocks a content has, and how often export() is called on one
\* exporter, in the model
MaxExpBlocks == 2

MaxExports == 2

\* None of an int attribute, of a color, of a font name, of a font size
NoId == 0

NoColor == ""

NoName == ""

NoSize == 0

\* editor_defaults.DEFAULT_FONT_FAMILY, DEFAULT_FONT_SIZE_PT
DefaultFontFamily == "Microsoft YaHei"

DefaultFontSizePt == 12

\* a heading_numbering_style dict; style "" and formats <<>> are absent keys
NumberingConfig(enabled, useAutoNumbering, style, formats) ==
    <<[enabled |-> enabled, useAutoNumbering |-> useAutoNumbering, style |-> style,
       formats |-> formats]>>

\* PRESET_STYLES["style2"]["formats"]
Style2Formats ==
    <<"number", "hierarchical", "hierarchical", "hierarchical", "hierarchical",
      "hierarchical">>

\* the configurations of the model: none, disabled, text prefix with a
\* preset, with custom formats and with neither, native numbering, and
\* useAutoNumbering without enabled
NumberingConfigs ==
    {<<>>,
     NumberingConfig(FALSE, FALSE, "style4", <<>>),
     NumberingConfig(TRUE, FALSE, "style4", <<>>),
     NumberingConfig(TRUE, FALSE, "", <<NoFormats>>),
     NumberingConfig(TRUE, FALSE, "", <<>>),
     NumberingConfig(TRUE, TRUE, "style4", <<>>),
     NumberingConfig(FALSE, TRUE, "style4", <<>>)}

\* HeadingNumberGenerator(level_formats, enabled=True)
HeadingNumberGenerator(fmts) == <<[level_formats |-> fmts, counters |-> NoCounters]>>

\* create_heading_number_generator
CreateHeadingNumberGenerator(numbering_config) ==
    IF numbering_config = <<>> THEN <<>>
    ELSE LET cfg == numbering_config[1]
         IN  IF ~cfg.enabled THEN <<>>
             ELSE IF cfg.style = "style1" THEN HeadingNumberGenerator(Style1Formats)
             ELSE IF cfg.style = "style2" THEN HeadingNumberGenerator(Style2Formats)
             ELSE IF cfg.style = "style4" THEN HeadingNumberGenerator(Style4Formats)
             ELSE IF cfg.formats # <<>> THEN HeadingNumberGenerator(cfg.formats[1])
             ELSE HeadingNumberGenerator(Style2Formats)

\* create_multilevel_numbering: None unless enabled and useAutoNumbering;
\* else the numId it created, or None when creating it raised (lines 71-73)
CreateMultilevelNumbering(numbering_config, created) ==
    IF numbering_config = <<>> THEN NoId
    ELSE IF ~numbering_config[1].enabled THEN NoId
    ELSE IF ~numbering_config[1].useAutoNumbering THEN NoId
    ELSE IF created THEN 1 ELSE NoId

\* a mutant: the generator is created in both modes
InitNumberingBoth(numbering_config, created) ==
    [auto_numbering_id |-> CreateMultilevelNumbering(numbering_config, created),
     heading_number_generator |-> CreateHeadingNumberGenerator(numbering_config)]

\* DocxExporter.__init__, lines 59-76: the two attributes of the numbering
InitNumbering(numbering_config, created) ==
    IF numbering_config # <<>> /\ numbering_config[1].useAutoNumbering
    THEN [auto_numbering_id |-> CreateMultilevelNumbering(numbering_config, created),
          heading_number_generator |-> <<>>]
    ELSE [auto_numbering_id |-> NoId,
          heading_number_generator |-> CreateHeadingNumberGenerator(numbering_config)]

\* a run of a paragraph: its text and the font attributes set on it; start
\* and end tell which characters of the block's text it holds (-1 for a run
\* that holds none)
Run(text, start, end) ==
    [text |-> text, start |-> start, end |-> end, bold |-> FALSE, color |-> NoColor,
     name |-> NoName, size |-> NoSize]

\* a paragraph of the document: its style, the level of a heading, its runs,
\* the block it was made for, and its w:numPr as <<numId, ilvl>>, which
\* doc.add_heading and doc.add_paragraph leave absent (<<>>).  A table of
\* the document is such an element too, of style "Table Grid", with the
\* merges made in it in merged
Paragraph(style, level, runs, block) ==
    [style |-> style, level |-> level, runs |-> runs, block |-> block, numPr |-> <<>>,
     merged |-> <<>>]

\* parse_color on the values of the model: "#ff0000" and "#0000ff" match
\* the hexadecimal pattern, "red" matches no pattern
ParseColor(value) ==
    IF value = "#ff0000" THEN "FF0000"
    ELSE IF value = "#0000ff" THEN "0000FF"
    ELSE NoColor

\* parse_font_size on the values of the model: "16px" is 16 * 0.75, ""
\* is None
ParseFontSize(value) ==
    IF value = "16px" THEN 12
    ELSE IF value = "18" THEN 18
    ELSE NoSize

\* a mutant: the default font is set whatever inherit_paragraph_style is
ApplyDefaultStyleToRunAlways(run, inherit_paragraph_style) ==
    [run EXCEPT !.name = DefaultFontFamily, !.size = DefaultFontSizePt]

\* apply_default_style_to_run(run, None, inherit_paragraph_style)
ApplyDefaultStyleToRun(run, inherit_paragraph_style) ==
    IF ~inherit_paragraph_style
    THEN [run EXCEPT !.name = DefaultFontFamily, !.size = DefaultFontSizePt]
    ELSE run

\* apply_marks_to_run: the marks in their order, a later one overriding
RECURSIVE ApplyMarksToRun(_, _)
ApplyMarksToRun(run, ms) ==
    IF ms = <<>> THEN run
    ELSE LET mark == ms[1]
             next ==
                CASE mark.type = "bold" -> [run EXCEPT !.bold = TRUE]
                  [] mark.type = "color" ->
                        IF ParseColor(mark.value) # NoColor
                        THEN [run EXCEPT !.color = ParseColor(mark.value)] ELSE run
                  [] mark.type = "fontSize" ->
                        IF ParseFontSize(mark.value) # NoSize
                        THEN [run EXCEPT !.size = ParseFontSize(mark.value)] ELSE run
                  [] mark.type = "fontFamily" ->
                        IF mark.value # "" THEN [run EXCEPT !.name = mark.value] ELSE run
                  [] OTHER -> run
         IN  ApplyMarksToRun(next, Tail(ms))

\* add_text_with_marks(para, text, marks, inherit_paragraph_style=...): the
\* runs it adds to the paragraph
TextRuns(text, ms, inherit_paragraph_style) ==
    LET segs == AddTextWithMarks(text, ms)
    IN  [k \in 1..Len(segs) |->
            ApplyMarksToRun(
                ApplyDefaultStyleToRun(Run(segs[k].text, segs[k].start, segs[k].end),
                                       inherit_paragraph_style),
                segs[k].active)]

\* apply_paragraph_style, lines 88-94: a color of the stylesheet is set on
\* every run of the paragraph
ApplyParagraphStyle(para, style_color) ==
    IF ParseColor(style_color) # NoColor
    THEN [para EXCEPT !.runs = [k \in 1..Len(para.runs) |->
                                  [para.runs[k] EXCEPT !.color = ParseColor(style_color)]]]
    ELSE para

\* a block of the content; attrs is <<>> (no attrs) or <<[listType, listLevel]>>,
\* data is <<>> (no data) or <<TableData>>
ExpBlock(type, level, text, ms, attrs) ==
    [type |-> type, level |-> level, text |-> text, marks |-> ms, attrs |-> attrs,
     data |-> <<>>]

\* a table block with its TableData
ExpTableBlock(rows, cols, mergeRegions) ==
    [ExpBlock("table", 0, <<>>, <<>>, <<>>) EXCEPT
        !.data = <<[rows |-> rows, cols |-> cols,
                    cells |-> [k \in 1..(rows * cols) |->
                                 [cell |-> <<(k - 1) \div cols, (k - 1) % cols>>]],
                    mergeRegions |-> mergeRegions]>>]

\* a MergeRegion from start to end, its master cell being start
ExpRegion(start, end) ==
    [start |-> start, end |-> end, masterCell |-> start,
     type |-> MergeType(end[1] - start[1] + 1, end[2] - start[2] + 1)]

\* an element of "blocks" that is no dict
NoneBlock == ExpBlock("#None", 0, <<>>, <<>>, <<>>)

\* the result of a block processor: the document, the generator, and whether
\* it raised
Processed(d, gen, raised) == [doc |-> d, gen |-> gen, raised |-> raised]

\* apply_numbering_to_heading(para, num_id, level)
ApplyNumberingToHeading(para, num_id, level) ==
    [para EXCEPT !.numPr = <<num_id, level - 1>>]

\* add_heading; in the branch of auto_numbering_id (lines 47-49) it adds the
\* text and nothing else: apply_numbering_to_heading has no caller
AddHeading(d, block, gen, auto_id, style_color) ==
    IF block.level < 0 \/ block.level > 9
    THEN Processed(d, gen, TRUE)
    ELSE LET text_runs == TextRuns(block.text, block.marks, TRUE)
             lv == ClampLevel(block.level)
             cs == IF gen # <<>> THEN UpdateCounter(gen[1].counters, lv) ELSE NoCounters
             number_prefix ==
                IF gen # <<>>
                THEN GenerateNumber(cs, lv, FormatOf(gen[1].level_formats, lv))
                ELSE ""
             runs ==
                IF auto_id # NoId THEN text_runs
                ELSE IF gen # <<>>
                     THEN (IF number_prefix # "" THEN <<Run(number_prefix, -1, -1)>>
                           ELSE <<>>) \o text_runs
                     ELSE text_runs
             gen2 == IF auto_id = NoId /\ gen # <<>>
                     THEN <<[gen[1] EXCEPT !.counters = cs]>> ELSE gen
             para == ApplyParagraphStyle(Paragraph("Heading", block.level, runs, block),
                                         style_color)
         IN  Processed(Append(d, para), gen2, FALSE)

\* add_paragraph: the paragraph is in the document before its list level is
\* compared with 0, which raises TypeError for a listLevel of None
AddParagraph(d, block, gen, style_color) ==
    LET attrs == IF block.attrs = <<>> THEN [listType |-> "", listLevel |-> 0]
                 ELSE block.attrs[1]
        style == IF attrs.listType = "bullet" THEN "List Bullet"
                 ELSE IF attrs.listType = "ordered" THEN "List Number"
                 ELSE "Normal"
    IN  IF attrs.listType \in {"bullet", "ordered"} /\ attrs.listLevel = NoneInt
        THEN Processed(Append(d, Paragraph(style, 0, <<>>, block)), gen, TRUE)
        ELSE Processed(
                Append(d, ApplyParagraphStyle(
                              Paragraph(style, 0, TextRuns(block.text, block.marks, FALSE),
                                        block),
                              style_color)),
                gen, FALSE)

\* the cells of the rectangle from start to end
RegionCells(region) ==
    (region.start[1]..region.end[1]) \X (region.start[2]..region.end[2])

\* table.cell(start) and table.cell(end) name cells of the grid and
\* start_cell.merge(end_cell) spans cells that no earlier merge has spanned
CanMerge(region, rows, cols, merged) ==
    /\ RegionCells(region) # {}
    /\ RegionCells(region) \subseteq (0..(rows - 1)) \X (0..(cols - 1))
    /\ \A k \in 1..Len(merged) : RegionCells(region) \cap RegionCells(merged[k]) = {}

\* the loop over merge_regions (lines 76-86): a region is merged, or what the
\* library raises for it is caught and logged and the loop goes on
RECURSIVE MergeRegions(_, _, _, _)
MergeRegions(regions, rows, cols, merged) ==
    IF regions = <<>> THEN merged
    ELSE MergeRegions(Tail(regions), rows, cols,
                      IF CanMerge(regions[1], rows, cols, merged)
                      THEN Append(merged, regions[1]) ELSE merged)

\* add_table
AddTable(d, block, gen) ==
    LET td == block.data[1]
    IN  IF td.rows = 0 \/ td.cols = 0
        THEN Processed(d, gen, FALSE)
        ELSE Processed(
                Append(d, [Paragraph("Table Grid", 0, <<>>, block) EXCEPT
                              !.merged = MergeRegions(td.mergeRegions,
                                                      td.rows, td.cols,
                                                      <<>>)]),
                gen, FALSE)

\* DocxExporter._process_block
ProcessBlock(d, block, gen, auto_id, style_color) ==
    CASE block.type = "#None" -> Processed(d, gen, TRUE)
      [] block.type = "paragraph" -> AddParagraph(d, block, gen, style_color)
      [] block.type = "heading" -> AddHeading(d, block, gen, auto_id, style_color)
      [] block.type = "table" -> AddTable(d, block, gen)
      [] block.type = "divider" ->
            Processed(Append(d, Paragraph("Divider", 0, <<>>, block)), gen, FALSE)
      [] OTHER -> Processed(d, gen, FALSE)

\* the paragraph of the except branch (lines 102-103)
ErrorPlaceholder(block) ==
    Paragraph("Normal", 0,
              <<[Run("[export error: " \o block.type \o "]", -1, -1)
                    EXCEPT !.color = "FF0000"]>>,
              block)

IsErrorPlaceholder(para) ==
    /\ Len(para.runs) = 1
    /\ para.runs[1].color = "FF0000"
    /\ \E t \in {"paragraph", "heading", "divider", "unknown"} :
          para.runs[1].text = "[export error: " \o t \o "]"

\* the blocks of the model
ExpText == <<"a", "b">>

ExpMarkPool ==
    <<SimpleMark("bold", <<0, 1>>), ValueMark("color", <<0, 1>>, "#ff0000"),
      ValueMark("fontFamily", <<1, 2>>, "SimSun"), ValueMark("fontSize", <<0, 2>>, "16px"),
      ValueMark("fontSize", <<1, 2>>, "")>>

ExpMarkLists ==
    {<<>>} \cup {<<ExpMarkPool[i]>> : i \in 1..Len(ExpMarkPool)}
    \cup {p \in {<<ExpMarkPool[i], ExpMarkPool[j]>> :
                    i \in 1..Len(ExpMarkPool), j \in 1..Len(ExpMarkPool)} :
              \E i \in 1..Len(ExpMarkPool) : \E j \in (i + 1)..Len(ExpMarkPool) :
                  p = <<ExpMarkPool[i], ExpMarkPool[j]>>}

ListAttr(listType, listLevel) == <<[listType |-> listType, listLevel |-> listLevel]>>

\* the tables of the model, of 2 rows and 2 columns: one with the first row
\* merged, one whose region ends outside the grid, one with two regions that
\* overlap in cell (0,1), and a table without rows
ExpTableBlocks ==
    {ExpTableBlock(2, 2, <<ExpRegion(<<0, 0>>, <<0, 1>>)>>),
     ExpTableBlock(2, 2, <<ExpRegion(<<0, 0>>, <<0, 2>>)>>),
     ExpTableBlock(2, 2, <<ExpRegion(<<0, 0>>, <<0, 1>>), ExpRegion(<<0, 1>>, <<1, 1>>)>>),
     ExpTableBlock(0, 0, <<>>)}

ExpBlocks ==
    {ExpBlock("heading", level, ExpText, ms, <<>>) : level \in {1, 2}, ms \in ExpMarkLists}
    \cup {ExpBlock("heading", 10, ExpText, <<>>, <<>>),
          ExpBlock("paragraph", 0, ExpText, <<>>, <<>>),
          ExpBlock("paragraph", 0, ExpText, <<>>, ListAttr("bullet", 1)),
          ExpBlock("paragraph", 0, ExpText, <<>>, ListAttr("bullet", NoneInt)),
          ExpBlock("divider", 0, <<>>, <<>>, <<>>),
          ExpBlock("unknown", 0, <<>>, <<>>, <<>>),
          NoneBlock}
    \cup ExpTableBlocks

ExpContents == SeqsUpTo(ExpBlocks, MaxExpBlocks)

\* the arguments of DocxExporter(content, stylesheet, document_settings)
InitArgs ==
    /\ exp_config \in NumberingConfigs
    /\ exp_content \in ExpContents
    /\ exp_style \in {"", "#0000ff"}

\* before the constructor ran
InitNew ==
    /\ InitArgs
    /\ auto_numbering_id = NoId
    /\ heading_number_generator = <<>>
    /\ doc = <<>>
    /\ exp_calls = <<>>
    /\ exp_idx = 0
    /\ exp_pc = "new"

\* an exporter with the attributes of lines 51-76
InitExp ==
    /\ InitArgs
    /\ \E created \in BOOLEAN :
          /\ auto_numbering_id = InitNumbering(exp_config, created).auto_numbering_id
          /\ heading_number_generator
                = InitNumbering(exp_config, created).heading_number_generator
    /\ doc = <<>>
    /\ exp_calls = <<>>
    /\ exp_idx = 0
    /\ exp_pc = "ready"

IdleExp ==
    /\ exp_config = <<>>
    /\ exp_content = <<>>
    /\ exp_style = ""
    /\ auto_numbering_id = NoId
    /\ heading_number_generator = <<>>
    /\ doc = <<>>
    /\ exp_calls = <<>>
    /\ exp_idx = 0
    /\ exp_pc = "idle"

\* DocxExporter(content, stylesheet, document_settings): lines 51-76 assign
\* the attributes, then line 79 calls configure_heading_styles, which takes
\* two parameters, with three arguments: TypeError
Construct(created) ==
    /\ exp_pc = "new"
    /\ auto_numbering_id' = InitNumbering(exp_config, created).auto_numbering_id
    /\ heading_number_generator'
          = InitNumbering(exp_config, created).heading_number_generator
    /\ exp_pc' = "init_raised"
    /\ UNCHANGED <<exp_config, exp_content, exp_style, doc, exp_calls, exp_idx,
                   notExpVars>>

\* exporter.export() is called: the loop over the blocks begins
ExportBegin ==
    /\ exp_pc = "ready"
    /\ Len(exp_calls) < MaxExports
    /\ exp_pc' = "loop"
    /\ exp_idx' = 1
    /\ exp_calls' = Append(exp_calls, [outcome |-> "running", first |-> Len(doc) + 1,
                                       last |-> Len(doc)])
    /\ UNCHANGED <<exp_config, exp_content, exp_style, auto_numbering_id,
                   heading_number_generator, doc, notExpVars>>

\* self._process_block(block) of the block at exp_idx
ProcessNext ==
    ProcessBlock(doc, exp_content[exp_idx], heading_number_generator, auto_numbering_id,
                 IF exp_idx = 1 THEN exp_style ELSE "")

\* one iteration of the loop (lines 96-98): _process_block returns
ExportBlock ==
    /\ exp_pc = "loop"
    /\ exp_idx <= Len(exp_content)
    /\ \E r \in {ProcessNext} :
          /\ ~r.raised
          /\ doc' = r.doc
          /\ heading_number_generator' = r.gen
    /\ exp_idx' = exp_idx + 1
    /\ UNCHANGED <<exp_config, exp_content, exp_style, auto_numbering_id, exp_calls,
                   exp_pc, notExpVars>>

\* one iteration of the loop (lines 96-103): _process_block raises and the
\* except branch adds the placeholder
ExportBlockFails ==
    /\ exp_pc = "loop"
    /\ exp_idx <= Len(exp_content)
    /\ exp_content[exp_idx].type # "#None"
    /\ \E r \in {ProcessNext} :
          /\ r.raised
          /\ doc' = Append(r.doc, ErrorPlaceholder(exp_content[exp_idx]))
          /\ heading_number_generator' = r.gen
    /\ exp_idx' = exp_idx + 1
    /\ UNCHANGED <<exp_config, exp_content, exp_style, auto_numbering_id, exp_calls,
                   exp_pc, notExpVars>>

\* one iteration of the loop: the block is no dict, so block.get raises in
\* _process_block and again in the except branch (line 102), and export()
\* raises (lines 115-117)
ExportRaises ==
    /\ exp_pc = "loop"
    /\ exp_idx <= Len(exp_content)
    /\ exp_content[exp_idx].type = "#None"
    /\ exp_calls' = [exp_calls EXCEPT ![Len(exp_calls)] =
                        [@ EXCEPT !.outcome = "raised", !.last = Len(doc)]]
    /\ exp_pc' = "ready"
    /\ UNCHANGED <<exp_config, exp_content, exp_style, auto_numbering_id,
                   heading_number_generator, doc, exp_idx, notExpVars>>

\* the loop is over: the document is saved and its stream returned
\* (lines 105-113)
ExportReturns ==
    /\ exp_pc = "loop"
    /\ exp_idx > Len(exp_content)
    /\ exp_calls' = [exp_calls EXCEPT ![Len(exp_calls)] =
                        [@ EXCEPT !.outcome = "returned", !.last = Len(doc)]]
    /\ exp_pc' = "ready"
    /\ UNCHANGED <<exp_config, exp_content, exp_style, auto_numbering_id,
                   heading_number_generator, doc, exp_idx, notExpVars>>

-----------------------------------------------------------------------------
(* DocxParser (docx_importer/parser.py), ImageExtractor                    *)
(* (image_extractor.py) and ElementConverter (element_converter.py): the   *)
(* steps 1 to 3 of DocxImporter.import_document.                           *)

\* how many children the body has, and how many rows and grid columns a
\* table of the document has, in the model
MaxBody == 2

MaxTblRows == 2

MaxGridCols == 2

\* the relationship ids of the embedded images
ImageRIds == {"rId1", "rId2"}

\* a w:tc: its gridSpan (1 = no w:gridSpan) and its vMerge ("" = no
\* w:vMerge, "restart", "continue")
Tcs == [gridSpan : 1..MaxGridCols, vMerge : {"", "restart", "continue"}]

\* the grid column of the k-th tc of a row is the sum of the spans before it
RECURSIVE GridOffset(_, _)
GridOffset(row, k) == IF k <= 1 THEN 0 ELSE GridOffset(row, k - 1) + row[k - 1].gridSpan

\* a w:tr fills the grid
DocxRows == {row \in SeqsUpTo(Tcs, MaxGridCols) : GridOffset(row, Len(row) + 1) = MaxGridCols}

\* a w:tbl as the word processor writes it: a tc that continues a vertical
\* merge lies under a tc of the same grid column and span that starts or
\* continues one
WellFormedTbl(tbl) ==
    \A r \in 1..Len(tbl) : \A k \in 1..Len(tbl[r]) :
        tbl[r][k].vMerge = "continue" =>
            /\ r > 1
            /\ \E j \in 1..Len(tbl[r - 1]) :
                  /\ GridOffset(tbl[r - 1], j) = GridOffset(tbl[r], k)
                  /\ tbl[r - 1][j].gridSpan = tbl[r][k].gridSpan
                  /\ tbl[r - 1][j].vMerge \in {"restart", "continue"}

DocxTbls ==
    {tbl \in UNION {[1..n -> DocxRows] : n \in 1..MaxTblRows} : WellFormedTbl(tbl)}

\* a child of the body: a w:p with its text, the level of its heading style
\* (0 = none) and the rId of the a:blip in it ("" = none), or a w:tbl
BodyP(text, heading_level, blip) ==
    [tag |-> "p", text |-> text, heading_level |-> heading_level, blip |-> blip,
     rows |-> <<>>]

BodyTbl(tbl) ==
    [tag |-> "tbl", text |-> "", heading_level |-> 0, blip |-> "", rows |-> tbl]

BodyElements ==
    {BodyP("a", 0, ""), BodyP("h", 1, ""), BodyP("", 0, "rId1"), BodyP("b", 0, "rId2")}
    \cup {BodyTbl(tbl) : tbl \in DocxTbls}

\* the image relationships of the document part: those of the blips
ImageRels(body) == {body[i].blip : i \in 1..Len(body)} \ {""}

\* row.cells of the library for row r: one entry per grid column, a tc of
\* span n n times, and for a tc that continues a vertical merge the cell
\* above it; a cell is named by the row and position <<r, k>> of its tc
RECURSIVE RowCells(_, _)
RowCells(tbl, r) ==
    LET row == tbl[r]
        TcAt(g) == CHOOSE k \in 1..Len(row) :
                      GridOffset(row, k) < g /\ g <= GridOffset(row, k) + row[k].gridSpan
    IN  [g \in 1..MaxGridCols |->
            IF row[TcAt(g)].vMerge = "continue" THEN RowCells(tbl, r - 1)[g]
            ELSE <<r, TcAt(g)>>]

\* DocxParser._calculate_rowspan
CalculateRowspan(tc) == 1

\* DocxParser._get_cell_span: <<rowspan, colspan>>
GetCellSpan(tc) ==
    <<IF tc.vMerge = "restart" THEN CalculateRowspan(tc) ELSE 1, tc.gridSpan>>

\* the cells that a cell at (row_idx, col_idx) marks in merge_map (lines
\* 552-555)
Merged(row_idx, col_idx, rowspan, colspan) ==
    {<<row_idx + dr, col_idx + dc>> : dr \in 0..(rowspan - 1), dc \in 0..(colspan - 1)}
    \ {<<row_idx, col_idx>>}

\* while (row_idx, col_idx) in merge_map: col_idx += 1
RECURSIVE SkipMerged(_, _, _)
SkipMerged(merge_map, row_idx, col_idx) ==
    IF <<row_idx, col_idx>> \in merge_map /\ col_idx <= MaxGridCols
    THEN SkipMerged(merge_map, row_idx, col_idx + 1)
    ELSE col_idx

\* the loop over row.cells (lines 539-611); st holds merge_map and cells
RECURSIVE DocxParseCells(_, _, _, _, _, _)
DocxParseCells(tbl, row_cells, row_idx, col_idx0, cols, st) ==
    IF row_cells = <<>> THEN st
    ELSE LET col_idx == SkipMerged(st.merge_map, row_idx, col_idx0)
             tc == tbl[row_cells[1][1]][row_cells[1][2]]
             span == GetCellSpan(tc)
         IN  IF col_idx >= cols THEN st
             ELSE DocxParseCells(
                     tbl, Tail(row_cells), row_idx, col_idx + span[2], cols,
                     [merge_map |-> st.merge_map
                                      \cup Merged(row_idx, col_idx, span[1], span[2]),
                      cells |-> Append(st.cells,
                                       [row |-> row_idx, col |-> col_idx,
                                        rowspan |-> span[1], colspan |-> span[2],
                                        text |-> row_cells[1]])])

\* the loop over table.rows (line 537)
RECURSIVE DocxParseRows(_, _, _, _)
DocxParseRows(tbl, row_idx, cols, st) ==
    IF row_idx >= Len(tbl) THEN st
    ELSE DocxParseRows(tbl, row_idx + 1, cols,
                       DocxParseCells(tbl, RowCells(tbl, row_idx + 1), row_idx, 0, cols, st))

\* DocxParser._parse_table: the DocxTable; the text of a cell is named by the
\* tc it is the text of
DocxParseTable(tbl) ==
    [rows |-> Len(tbl), cols |-> MaxGridCols,
     cells |-> DocxParseRows(tbl, 0, MaxGridCols, [merge_map |-> {}, cells |-> <<>>]).cells]

\* a DocxElement
DocxElement(element_type, data) == [element_type |-> element_type, data |-> data]

\* DocxParser._parse_body: a paragraph for every w:p, a table for every w:tbl
RECURSIVE DocxParseBody(_)
DocxParseBody(body) ==
    IF body = <<>> THEN <<>>
    ELSE LET el == Last(body)
             front == DocxParseBody(SubSeq(body, 1, Len(body) - 1))
         IN  IF el.tag = "p"
             THEN Append(front, DocxElement("paragraph",
                                            [text |-> el.text,
                                             heading_level |-> el.heading_level]))
             ELSE IF el.tag = "tbl"
             THEN Append(front, DocxElement("table", DocxParseTable(el.rows)))
             ELSE front

\* ElementConverter.convert_paragraph; the id of a block is its position
ConvertParagraph(para, n) ==
    [id |-> n, type |-> IF para.heading_level # 0 THEN "heading" ELSE "paragraph",
     text |-> para.text, level |-> para.heading_level, src |-> "", data |-> <<>>]

\* ElementConverter.convert_table: the cells and the mergeRegions of the
\* TableData
RECURSIVE ConvertRegions(_)
ConvertRegions(cells) ==
    IF cells = <<>> THEN <<>>
    ELSE LET c == Last(cells)
             front == ConvertRegions(SubSeq(cells, 1, Len(cells) - 1))
         IN  IF (c.rowspan > 1 \/ c.colspan > 1)
                /\ \A k \in 1..Len(front) : front[k].masterCell # <<c.row, c.col>>
             THEN Append(front,
                         [start |-> <<c.row, c.col>>,
                          end |-> <<c.row + c.rowspan - 1, c.col + c.colspan - 1>>,
                          masterCell |-> <<c.row, c.col>>,
                          type |-> MergeType(c.rowspan, c.colspan)])
             ELSE front

ConvertTable(table, n) ==
    [id |-> n, type |-> "table", text |-> "", level |-> 0, src |-> "",
     data |-> <<[rows |-> table.rows, cols |-> table.cols,
                 cells |-> [k \in 1..Len(table.cells) |->
                               [cell |-> <<table.cells[k].row, table.cells[k].col>>,
                                text |-> table.cells[k].text]],
                 mergeRegions |-> ConvertRegions(table.cells)]>>]

\* path_map.get(rId, default)
PathOf(path_map, rId) ==
    IF \E k \in 1..Len(path_map) : path_map[k][1] = rId
    THEN path_map[CHOOSE k \in 1..Len(path_map) : path_map[k][1] = rId][2]
    ELSE "/api/v1/assets/images/" \o rId

\* ElementConverter.convert_image
ConvertImage(image, path_map, n) ==
    [id |-> n, type |-> "image", text |-> "", level |-> 0,
     src |-> PathOf(path_map, image.rId), data |-> <<>>]

\* ElementConverter.convert_elements: the blocks
RECURSIVE ConvertElements(_, _)
ConvertElements(elements, path_map) ==
    IF elements = <<>> THEN <<>>
    ELSE LET el == Last(elements)
             front == ConvertElements(SubSeq(elements, 1, Len(elements) - 1), path_map)
             n == Len(front) + 1
         IN  CASE el.element_type = "paragraph" -> Append(front, ConvertParagraph(el.data, n))
               [] el.element_type = "table" -> Append(front, ConvertTable(el.data, n))
               [] el.element_type = "image" ->
                     Append(front, ConvertImage(el.data, path_map, n))
               [] OTHER -> front

\* the access path extract_and_save gives the image of a relationship
AccessPath(rId) == "/api/v1/assets/images/doc/" \o rId \o ".png"

InitImp ==
    /\ imp_body \in SeqsUpTo(BodyElements, MaxBody)
    /\ imp_elements = <<>>
    /\ imp_images = {}
    /\ imp_path_map = <<>>
    /\ imp_blocks = <<>>
    /\ imp_pc = "start"

IdleImp ==
    /\ imp_body = <<>>
    /\ imp_elements = <<>>
    /\ imp_images = {}
    /\ imp_path_map = <<>>
    /\ imp_blocks = <<>>
    /\ imp_pc = "idle"

\* DocxParser.parse: _extract_all_images, then _parse_body
DocxParse ==
    /\ imp_pc = "start"
    /\ imp_images' = ImageRels(imp_body)
    /\ imp_elements' = DocxParseBody(imp_body)
    /\ imp_pc' = "parsed"
    /\ UNCHANGED <<imp_body, imp_path_map, imp_blocks, notImpVars>>

\* ImageExtractor.extract_and_save: a path for every image whose file could
\* be written (lines 59-68)
ExtractAndSave(written) ==
    /\ imp_pc = "parsed"
    /\ written \subseteq imp_images
    /\ imp_path_map' =
          LET Paths(rIds) == [k \in 1..Len(rIds) |-> <<rIds[k], AccessPath(rIds[k])>>]
          IN  Paths(SelectSeq(<<"rId1", "rId2">>, LAMBDA r : r \in written))
    /\ imp_pc' = "saved"
    /\ UNCHANGED <<imp_body, imp_elements, imp_images, imp_blocks, notImpVars>>

\* converter.convert_elements(parse_result.elements, images_path_map)
Convert ==
    /\ imp_pc = "saved"
    /\ imp_blocks' = ConvertElements(imp_elements, imp_path_map)
    /\ imp_pc' = "converted"
    /\ UNCHANGED <<imp_body, imp_elements, imp_images, imp_path_map, notImpVars>>

-----------------------------------------------------------------------------

(* Cell style rules of a document with several tables: parse_table of the  *)
(* html parser writes them, DocxExporter (_build_cell_style_map, add_table, *)
(* apply_cell_style) and WangEditorRenderer (_build_style_map,              *)
(* TableRenderer._render_cell) read them.                                   *)

\* how many tables the html has, and the rows and columns of each, in the
\* model; the cells span nothing
MaxCsTables == 2

MaxCsRows == 1

MaxCsCols == 2

\* the user styles of a cell: "" = the key is not in the dict
CsProps == {"backgroundColor", "textAlign"}

NoStyles == [p \in CsProps |-> ""]

CsCellStyles ==
    {st \in [CsProps -> {"", "red", "blue", "center"}] :
        /\ st["backgroundColor"] \in {"", "red", "blue"}
        /\ st["textAlign"] \in {"", "center"}}

\* a <table>: its rows, each the cells' user styles
CsHtmlTables == [1..MaxCsRows -> [1..MaxCsCols -> CsCellStyles]]

\* f"cell-{row_idx}-{col_idx}"
CellId(row_idx, col_idx) == <<"cell", row_idx, col_idx>>

CsCellIds == {CellId(r, c) : r \in 0..(MaxCsRows - 1), c \in 0..(MaxCsCols - 1)}

\* dict.update: the keys of the second dict override
Update(styles, more) == [p \in CsProps |-> IF more[p] # "" THEN more[p] ELSE styles[p]]

\* add_style_rule: a rule for block_id is appended; of_table (not in the
\* code) remembers the table whose cell the rule was derived from
AddStyleRule(rules, block_id, block_type, styles, of_table) ==
    Append(rules, [blockType |-> block_type, blockIds |-> <<block_id>>,
                   style |-> styles, of_table |-> of_table])

\* parse_table, lines 76-97, for the cells of one row: st holds
\* table_data.cells and style_rules
RECURSIVE ParseCellStyles(_, _, _, _, _)
ParseCellStyles(row, row_idx, col_idx, n, st) ==
    IF col_idx >= Len(row) THEN st
    ELSE LET cell_id == CellId(row_idx, col_idx)
             cell_styles == row[col_idx + 1]
         IN  ParseCellStyles(
                 row, row_idx, col_idx + 1, n,
                 IF cell_styles # NoStyles
                 THEN [cells |-> Append(st.cells, [cell |-> <<row_idx, col_idx>>,
                                                   styleId |-> cell_id]),
                       rules |-> AddStyleRule(st.rules, cell_id, "tableCell",
                                              cell_styles, n)]
                 ELSE [cells |-> Append(st.cells, [cell |-> <<row_idx, col_idx>>,
                                                   styleId |-> <<>>]),
                       rules |-> st.rules])

RECURSIVE ParseRowStyles(_, _, _, _)
ParseRowStyles(tbl, row_idx, n, st) ==
    IF row_idx >= Len(tbl) THEN st
    ELSE ParseRowStyles(tbl, row_idx + 1, n,
                        ParseCellStyles(tbl[row_idx + 1], row_idx, 0, n, st))

\* HtmlParser.parse over the tables of the html: the blocks (the id of a
\* table block is its position) and the rules of the one stylesheet
RECURSIVE ParseTables(_, _, _)
ParseTables(html, n, st) ==
    IF n > Len(html) THEN st
    ELSE LET r == ParseRowStyles(html[n], 0, n, [cells |-> <<>>, rules |-> st.rules])
         IN  ParseTables(html, n + 1,
                         [blocks |-> Append(st.blocks,
                                            [id |-> n, type |-> "table",
                                             rows |-> Len(html[n]), cols |-> MaxCsCols,
                                             cells |-> r.cells]),
                          rules |-> r.rules])

\* DocxExporter._build_cell_style_map: the styles of the tableCell rules by
\* block id; an id with no rule has no entry, which get(cell_id, {}) reads
\* as no styles
RECURSIVE BuildCellStyleMap(_)
BuildCellStyleMap(rules) ==
    IF rules = <<>> THEN [id \in CsCellIds |-> NoStyles]
    ELSE LET rule == Last(rules)
             front == BuildCellStyleMap(SubSeq(rules, 1, Len(rules) - 1))
         IN  IF rule.blockType = "tableCell"
             THEN [id \in CsCellIds |->
                      IF \E k \in 1..Len(rule.blockIds) : rule.blockIds[k] = id
                      THEN Update(front[id], rule.style) ELSE front[id]]
             ELSE front

\* apply_cell_style(cell, para, cell_id, cell_style_map): the styles the
\* cell gets
ApplyCellStyle(cell_id, cell_style_map) == cell_style_map[cell_id]

\* add_table, lines 52-73: every cell with data is styled by the id of its
\* row and column
AddTableCellStyles(block, cell_style_map) ==
    [rc \in {block.cells[k].cell : k \in 1..Len(block.cells)} |->
        ApplyCellStyle(CellId(rc[1], rc[2]), cell_style_map)]

\* WangEditorRenderer._build_style_map: the styles of all rules by block id
RECURSIVE BuildStyleMap(_)
BuildStyleMap(rules) ==
    IF rules = <<>> THEN [id \in CsCellIds |-> NoStyles]
    ELSE LET rule == Last(rules)
             front == BuildStyleMap(SubSeq(rules, 1, Len(rules) - 1))
         IN  [id \in CsCellIds |->
                 IF \E k \in 1..Len(rule.blockIds) : rule.blockIds[k] = id
                 THEN Update(front[id], rule.style) ELSE front[id]]

\* TableRenderer._render_cell: the styles in the style attribute of the cell
\* besides the default border and padding
RenderCell(cell_data, style_map) ==
    IF cell_data.styleId # <<>> THEN style_map[cell_data.styleId] ELSE NoStyles

\* TableRenderer.render over the cells of a table
RenderTableCellStyles(block, style_map) ==
    [rc \in {block.cells[k].cell : k \in 1..Len(block.cells)} |->
        RenderCell(block.cells[CHOOSE k \in 1..Len(block.cells) : block.cells[k].cell = rc],
                   style_map)]

InitCs ==
    /\ cs_html \in SeqsUpTo(CsHtmlTables, MaxCsTables)
    /\ cs_rules = <<>>
    /\ cs_blocks = <<>>
    /\ cs_docx = <<>>
    /\ cs_rendered = <<>>
    /\ cs_done = {}
    /\ cs_pc = "start"

IdleCs ==
    /\ cs_html = <<>>
    /\ cs_rules = <<>>
    /\ cs_blocks = <<>>
    /\ cs_docx = <<>>
    /\ cs_rendered = <<>>
    /\ cs_done = {}
    /\ cs_pc = "idle"

\* HtmlParser.parse
CsParse ==
    /\ cs_pc = "start"
    /\ \E r \in {ParseTables(cs_html, 1, [blocks |-> <<>>, rules |-> <<>>])} :
          /\ cs_blocks' = r.blocks
          /\ cs_rules' = r.rules
    /\ cs_pc' = "parsed"
    /\ UNCHANGED <<cs_html, cs_docx, cs_rendered, cs_done, notCsVars>>

\* DocxExporter over the parsed document: the constructor builds
\* cell_style_map, export() adds the tables
CsExport ==
    /\ cs_pc = "parsed"
    /\ "export" \notin cs_done
    /\ \E cell_style_map \in {BuildCellStyleMap(cs_rules)} :
          cs_docx' = [n \in 1..Len(cs_blocks) |->
                         AddTableCellStyles(cs_blocks[n], cell_style_map)]
    /\ cs_done' = cs_done \cup {"export"}
    /\ UNCHANGED <<cs_html, cs_rules, cs_blocks, cs_rendered, cs_pc, notCsVars>>

\* WangEditorRenderer over the parsed document: the constructor builds
\* style_map, render() renders the tables
CsRender ==
    /\ cs_pc = "parsed"
    /\ "render" \notin cs_done
    /\ \E style_map \in {BuildStyleMap(cs_rules)} :
          cs_rendered' = [n \in 1..Len(cs_blocks) |->
                             RenderTableCellStyles(cs_blocks[n], style_map)]
    /\ cs_done' = cs_done \cup {"render"}
    /\ UNCHANGED <<cs_html, cs_rules, cs_blocks, cs_docx, cs_pc, notCsVars>>

-----------------------------------------------------------------------------

(* The specifications.                                                     *)

NextNum == \E level \in Levels : GetNumber(level)

InitSpecNum ==
    InitNum /\ IdleChap /\ IdleTbl /\ IdleMark /\ IdleSeg /\ IdleRt /\ IdlePa
    /\ IdleExp /\ IdleImp /\ IdleCs

SpecNum == InitSpecNum /\ [][NextNum]_vars

NextChap ==
    \/ \E kind \in BlockKinds : BuildHeading(kind)
    \/ \E kind \in BlockKinds : BuildContent(kind)
    \/ BuildReturn

InitSpecChap ==
    InitChap /\ IdleNum /\ IdleTbl /\ IdleMark /\ IdleSeg /\ IdleRt /\ IdlePa
    /\ IdleExp /\ IdleImp /\ IdleCs

SpecChap == InitSpecChap /\ [][NextChap]_vars

NextTbl == ParseTable

InitSpecTbl ==
    InitTbl /\ IdleNum /\ IdleChap /\ IdleMark /\ IdleSeg /\ IdleRt /\ IdlePa
    /\ IdleExp /\ IdleImp /\ IdleCs

SpecTbl == InitSpecTbl /\ [][NextTbl]_vars

NextMark ==
    \/ MergeOnce
    \/ MergeAgain
    \/ \E p \in Perms(Len(marks)) : MergePermuted(p)
    \/ Extract

InitSpecMark ==
    InitMark /\ IdleNum /\ IdleChap /\ IdleTbl /\ IdleSeg /\ IdleRt /\ IdlePa
    /\ IdleExp /\ IdleImp /\ IdleCs

SpecMark == InitSpecMark /\ [][NextMark]_vars

NextSeg ==
    \/ RenderMarks
    \/ ExportMarks
    \/ ExportMarksRaises

InitSpecSeg ==
    InitSeg /\ IdleNum /\ IdleChap /\ IdleTbl /\ IdleMark /\ IdleRt /\ IdlePa
    /\ IdleExp /\ IdleImp /\ IdleCs

SpecSeg == InitSpecSeg /\ [][NextSeg]_vars

NextRt ==
    \/ RenderContent
    \/ ParseHtml

InitSpecRt ==
    InitRt /\ IdleNum /\ IdleChap /\ IdleTbl /\ IdleMark /\ IdleSeg /\ IdlePa
    /\ IdleExp /\ IdleImp /\ IdleCs

SpecRt == InitSpecRt /\ [][NextRt]_vars

NextPa ==
    \/ ParseReturns
    \/ ParseRaises

InitSpecPa ==
    InitPa /\ IdleNum /\ IdleChap /\ IdleTbl /\ IdleMark /\ IdleSeg /\ IdleRt
    /\ IdleExp /\ IdleImp /\ IdleCs

SpecPa == InitSpecPa /\ [][NextPa]_vars

NextInit == \E created \in BOOLEAN : Construct(created)

InitSpecInit ==
    InitNew /\ IdleNum /\ IdleChap /\ IdleTbl /\ IdleMark /\ IdleSeg /\ IdleRt /\ IdlePa /\ IdleImp /\ IdleCs

SpecInit == InitSpecInit /\ [][NextInit]_vars

NextExp ==
    \/ ExportBegin
    \/ ExportBlock
    \/ ExportBlockFails
    \/ ExportRaises
    \/ ExportReturns

InitSpecExp ==
    InitExp /\ IdleNum /\ IdleChap /\ IdleTbl /\ IdleMark /\ IdleSeg /\ IdleRt /\ IdlePa /\ IdleImp /\ IdleCs

SpecExp == InitSpecExp /\ [][NextExp]_vars

NextImp ==
    \/ DocxParse
    \/ \E written \in SUBSET ImageRIds : ExtractAndSave(written)
    \/ Convert

InitSpecImp ==
    InitImp /\ IdleNum /\ IdleChap /\ IdleTbl /\ IdleMark /\ IdleSeg /\ IdleRt /\ IdlePa
    /\ IdleExp /\ IdleCs

SpecImp == InitSpecImp /\ [][NextImp]_vars

NextCs ==
    \/ CsParse
    \/ CsExport
    \/ CsRender

InitSpecCs ==
    InitCs /\ IdleNum /\ IdleChap /\ IdleTbl /\ IdleMark /\ IdleSeg /\ IdleRt /\ IdlePa
    /\ IdleExp /\ IdleImp

SpecCs == InitSpecCs /\ [][NextCs]_vars

-----------------------------------------------------------------------------
\* C1: with every level hierarchical, numbering the level sequence
\* [1,2,2,3,3,1] from a fresh generator returns "1", "1.1", "1.2", "1.2.1",
\* "1.2.2", "2" (each followed by the format's separating blank), so the
\* closing level-1 heading restarts the deeper counters.
C1_Levels == <<1, 2, 2, 3, 3, 1>>

C1_Expected == <<"1 ", "1.1 ", "1.2 ", "1.2.1 ", "1.2.2 ", "2 ">>

C1_HierarchicalSequence ==
    (level_formats = NoFormats) =>
        \A i \in 1..Len(levels) :
            (i <= Len(C1_Levels) /\ SubSeq(levels, 1, i) = SubSeq(C1_Levels, 1, i))
                => /\ prefixes[i] = C1_Expected[i]
                   /\ (levels = C1_Levels =>
                          \A l \in Levels : l > 1 => counters[l] = <<>>)

C1_Witness ==
    /\ level_formats = NoFormats
    /\ levels = C1_Levels
    /\ prefixes = C1_Expected

\* self.counters after get_number was called with these levels in turn
RECURSIVE CountersAfter(_)
CountersAfter(ls) ==
    IF ls = <<>> THEN NoCounters
    ELSE UpdateCounter(CountersAfter(SubSeq(ls, 1, Len(ls) - 1)), ClampLevel(Last(ls)))

\* C19: for any sequence of levels, a heading of level L > 1 that finds no
\* counter at level L gets the current numbers of the levels 1..L-1 followed
\* by 1 as its hierarchical prefix.
C19_SeededFromLevelsBelow ==
    (level_formats = NoFormats) =>
        \A n \in 1..Len(levels) :
            LET L == levels[n]
                before == CountersAfter(SubSeq(levels, 1, n - 1))
                after == CountersAfter(SubSeq(levels, 1, n))
            IN  (L > 1 /\ before[L] = <<>>) =>
                    /\ Len(after[L]) = L
                    /\ after[L][L] = 1
                    /\ \A k \in 1..(L - 1) :
                          before[k] # <<>> => after[L][k] = Last(before[k])
                    /\ prefixes[n] = JoinDots(after[L]) \o " "

\* a level-3 heading right under the second level-1 heading is numbered 1.1.1
C19_Witness ==
    /\ level_formats = NoFormats
    /\ levels = <<1, 1, 3>>
    /\ prefixes = <<"1 ", "2 ", "1.1.1 ">>

\* what holds: with a counter at level L-1, the prefix is that counter's
\* numbers followed by 1 (a level-3 heading under "2.1" becomes "2.1.1")
C19_SeededFromParent ==
    (level_formats = NoFormats) =>
        \A n \in 1..Len(levels) :
            LET L == levels[n]
                before == CountersAfter(SubSeq(levels, 1, n - 1))
            IN  /\ (L > 1 /\ before[L] = <<>> /\ before[L - 1] # <<>>) =>
                      prefixes[n] = JoinDots(Append(before[L - 1], 1)) \o " "
                /\ SubSeq(levels, 1, n) = <<1, 1, 2, 3>> => prefixes[n] = "2.1.1 "

\* C2: every chapter build() returns that has a parent has a heading level
\* strictly greater than the heading level of that parent.
ChapterById(id) == chapters[CHOOSE i \in 1..Len(chapters) : chapters[i].id = id]

C2_ParentLevelSmaller ==
    build_pc = "done" =>
        \A i \in 1..Len(chapters) :
            chapters[i].parent_id # NoParent =>
                /\ \E j \in 1..Len(chapters) : chapters[j].id = chapters[i].parent_id
                /\ ChapterById(chapters[i].parent_id).heading_level
                       < chapters[i].heading_level

C2_Witness ==
    /\ build_pc = "done"
    /\ \E i \in 1..Len(chapters) :
          /\ chapters[i].parent_id # NoParent
          /\ chapters[i].heading_level = 3
          /\ ChapterById(chapters[i].parent_id).heading_level = 1

\* the nearest chapter before position i whose heading level is strictly
\* smaller than that of chapter i, NoParent when there is none
NearestSmaller(i) ==
    LET idx == {j \in 1..(i - 1) : chapters[j].heading_level < chapters[i].heading_level}
    IN  IF idx = {} THEN NoParent
        ELSE chapters[CHOOSE j \in idx : \A k \in idx : k <= j].id

\* C20: after every pop-and-push the stack holds strictly increasing heading
\* levels with the pushed chapter on top and its parent right below it, and
\* every chapter's parent is the nearest preceding chapter of a strictly
\* smaller heading level, absent when there is none.
C20_ParentIsNearestSmaller ==
    /\ \A k \in 1..Len(parent_stack) :
          /\ k > 1 => /\ parent_stack[k - 1].heading_level < parent_stack[k].heading_level
                      /\ parent_stack[k].parent_id = parent_stack[k - 1].id
          /\ k = 1 => parent_stack[k].parent_id = NoParent
    /\ (build_pc = "loop" /\ chapters # <<>>) => Last(parent_stack).id = Last(chapters).id
    /\ \A i \in 1..Len(chapters) : chapters[i].parent_id = NearestSmaller(i)

\* headings of levels 1,2,3,2: the fourth chapter pops the chapters of levels
\* 3 and 2 and is parented to the first
C20_Witness ==
    /\ Len(chapters) >= 4
    /\ [i \in 1..4 |-> chapters[i].heading_level] = <<1, 2, 3, 2>>
    /\ chapters[4].parent_id = chapters[1].id
    /\ chapters[3].parent_id = chapters[2].id
    /\ build_pc = "loop"
    /\ [k \in 1..Len(parent_stack) |-> parent_stack[k].id] = <<1, 4>>

\* (r,c) lies in the rectangle of a mergeRegion
InRegion(region, r, c) ==
    /\ region.start[1] <= r /\ r <= region.end[1]
    /\ region.start[2] <= c /\ c <= region.end[2]

IsMasterCell(td, pos) ==
    \E k \in 1..Len(td.mergeRegions) : td.mergeRegions[k].masterCell = pos

\* the cells that cover (r,c) by themselves, and the regions that cover it
CoverCount(td, r, c) ==
    Cardinality({k \in 1..Len(td.cells) :
                    td.cells[k].cell = <<r, c>> /\ ~IsMasterCell(td, <<r, c>>)})
    + Cardinality({k \in 1..Len(td.mergeRegions) : InRegion(td.mergeRegions[k], r, c)})

\* C3: in every TableData that parse_table produces, every grid coordinate
\* (r,c) with 0 <= r < rows and 0 <= c < cols is covered exactly once: by the
\* footprint of exactly one cell of the cell list or by exactly one mergeRegion.
C3_CoveredExactlyOnce ==
    table_pc = "parsed" =>
        \A r \in 0..(table_data.rows - 1), c \in 0..(table_data.cols - 1) :
            CoverCount(table_data, r, c) = 1

\* the two ways the coverage fails
C3_NeverUncovered ==
    table_pc = "parsed" =>
        \A r \in 0..(table_data.rows - 1), c \in 0..(table_data.cols - 1) :
            CoverCount(table_data, r, c) >= 1

C3_NeverCoveredTwice ==
    table_pc = "parsed" =>
        \A r \in 0..(table_data.rows - 1), c \in 0..(table_data.cols - 1) :
            CoverCount(table_data, r, c) <= 1

\* a parsed table with a coordinate under a row-merge and a column-merge
C3_Witness ==
    /\ table_pc = "parsed"
    /\ table_data.rows = 2 /\ table_data.cols = 2
    /\ CoverCount(table_data, 1, 1) = 2

\* the table's only spanning cell is its first, with rowspan 2 and colspan 2
OnlyFirstCellSpans(rows) ==
    /\ Len(rows) >= 2
    /\ rows[1][1] = [rowspan |-> 2, colspan |-> 2]
    /\ \A r \in 1..Len(rows) : \A k \in 1..Len(rows[r]) :
          <<r, k>> # <<1, 1>> => rows[r][k] = [rowspan |-> 1, colspan |-> 1]

\* the 3x3 table of the claim: the cells of each tr
Table3x3 ==
    LET one == [rowspan |-> 1, colspan |-> 1]
    IN  <<<<[rowspan |-> 2, colspan |-> 2], one>>, <<one>>, <<one, one, one>>>>

\* C12: a table whose cell (0,0) has rowspan=2 and colspan=2 and whose other
\* cells span nothing (the 3x3 table among them) parses to exactly one
\* mergeRegion, rectangular, from (0,0) to (1,1) with masterCell (0,0), and
\* the cell list has no cell at (0,1), (1,0) or (1,1).
C12_OneRectangularRegion ==
    (table_pc = "parsed" /\ OnlyFirstCellSpans(html_rows)) =>
        /\ table_data.mergeRegions =
              <<[start |-> <<0, 0>>, end |-> <<1, 1>>, masterCell |-> <<0, 0>>,
                 type |-> "rectangular"]>>
        /\ \A k \in 1..Len(table_data.cells) :
              table_data.cells[k].cell \notin {<<0, 1>>, <<1, 0>>, <<1, 1>>}
        /\ table_data.cells[1].cell = <<0, 0>>
        /\ html_rows = Table3x3 =>
              /\ table_data.rows = 3 /\ table_data.cols = 3
              /\ [k \in 1..Len(table_data.cells) |-> table_data.cells[k].cell]
                    = <<<<0, 0>>, <<0, 2>>, <<1, 2>>, <<2, 0>>, <<2, 1>>, <<2, 2>>>>

C12_Witness ==
    /\ table_pc = "parsed"
    /\ html_rows = Table3x3
    /\ Len(table_data.mergeRegions) = 1
    /\ Len(table_data.cells) = 6

\* the block is a Paragraph in a list
IsListParagraph(b) ==
    b.type = "paragraph" /\ b.attrs # <<>> /\ b.attrs[1].listType \in {"bullet", "ordered"}

\* two list paragraphs of the same listType and listLevel (no level is level 0)
SameList(a, b) ==
    /\ IsListParagraph(a) /\ IsListParagraph(b)
    /\ a.attrs[1].listType = b.attrs[1].listType
    /\ OrZero(a.attrs[1].listLevel) = OrZero(b.attrs[1].listLevel)

\* the positions where a rendered element begins: a block outside a list, or
\* the first block of a maximal run
PartStarts(bs) ==
    {i \in 1..Len(bs) : ~IsListParagraph(bs[i]) \/ i = 1 \/ ~SameList(bs[i - 1], bs[i])}

NthStart(bs, k) ==
    CHOOSE i \in PartStarts(bs) : Cardinality({x \in PartStarts(bs) : x < i}) = k - 1

\* the last position of the maximal run that begins at i
RunLast(bs, i) ==
    CHOOSE j \in i..Len(bs) :
        /\ \A k \in i..j : SameList(bs[i], bs[k])
        /\ j = Len(bs) \/ ~SameList(bs[i], bs[j + 1])

IsElement(node) == node.tag # "#text"

\* C18: the rendered HTML has one element per block outside a list and one
\* ul/ol per maximal run of consecutive Paragraph blocks of the same listType
\* and listLevel, in order, with one li per block of the run; a new list
\* element begins exactly where the type or level changes or a block that is
\* no list item intervenes.
C18_OneListPerRun ==
    rt_pc # "start" =>
        LET bs == rt_content
            parts == SelectSeq(rt_html, IsElement)
        IN  /\ Len(parts) = Cardinality(PartStarts(bs))
            /\ \A k \in 1..Len(parts) :
                  LET i == NthStart(bs, k)
                  IN  IF IsListParagraph(bs[i])
                      THEN /\ parts[k].tag =
                                 (IF bs[i].attrs[1].listType = "bullet" THEN "ul" ELSE "ol")
                           /\ Len(parts[k].children) = RunLast(bs, i) - i + 1
                           /\ \A c \in 1..Len(parts[k].children) :
                                 /\ parts[k].children[c].tag = "li"
                                 /\ parts[k].children[c].children
                                       = FormattedText(bs[i + c - 1].text, bs[i + c - 1].marks)
                      ELSE parts[k].tag \notin {"ul", "ol"}

\* bullet, bullet, divider, bullet: a list of two items, the divider, and a
\* new list of one item
C18_Witness ==
    /\ rt_pc = "rendered"
    /\ Len(rt_content) = 4
    /\ IsListParagraph(rt_content[1]) /\ SameList(rt_content[1], rt_content[2])
    /\ rt_content[3] = DividerBlock
    /\ SameList(rt_content[1], rt_content[4])
    /\ LET parts == SelectSeq(rt_html, IsElement)
       IN  /\ [k \in 1..Len(parts) |-> parts[k].tag] = <<"ul", "hr", "ul">>
           /\ Len(parts[1].children) = 2
           /\ Len(parts[3].children) = 1

\* C16: parse(html) never raises, whatever the tags and the values of the
\* rowspan, colspan and start attributes, and an element of an unrecognized
\* tag name produces no block.
C16_ParseNeverRaises ==
    /\ pa_pc # "raised"
    /\ pa_pc = "returned" =>
          Len(pa_blocks) = Cardinality({k \in 1..Len(pa_elements) :
                                           \/ pa_elements[k].tag \in {"p", "table"}
                                           \/ /\ pa_elements[k].tag \in {"ul", "ol"}
                                              /\ pa_elements[k].items = 1})

\* <table><tr><td colspan="a"> raises
C16_Witness ==
    /\ pa_pc = "raised"
    /\ Len(pa_elements) = 1
    /\ pa_elements[1].tag = "table"
    /\ pa_elements[1].colspan = <<<<"a">>>>

\* every attribute that an int() reads: the colspan of a cell, its rowspan
\* when the table has a column, the start of an ol with an li
ReadAttrs(el) ==
    CASE el.tag = "table" /\ el.items = 1 ->
            {el.colspan} \cup (IF AttrInt(el.colspan).ok /\ AttrInt(el.colspan).value > 0
                               THEN {el.rowspan} ELSE {})
      [] el.tag = "ol" /\ el.items = 1 -> {el.start}
      [] OTHER -> {}

\* what holds: parse raises exactly when an attribute it converts is no
\* integer literal, and when it returns, the elements of unrecognized tags
\* have produced no block
C16_RaisesOnlyOnAttributes ==
    /\ pa_pc = "raised" =>
          \E k \in 1..Len(pa_elements) : \E a \in ReadAttrs(pa_elements[k]) : ~AttrInt(a).ok
    /\ pa_pc = "returned" =>
          /\ \A k \in 1..Len(pa_elements) : \A a \in ReadAttrs(pa_elements[k]) : AttrInt(a).ok
          /\ Len(pa_blocks) = Cardinality({k \in 1..Len(pa_elements) :
                                              \/ pa_elements[k].tag \in {"p", "table"}
                                              \/ /\ pa_elements[k].tag \in {"ul", "ol"}
                                                 /\ pa_elements[k].items = 1})

\* C14: for the text-prefix, the native and the disabled numbering
\* configuration, DocxExporter(content, stylesheet, settings) is constructed
\* and export() returns a stream: the constructor never raises.
C14_ConstructorReturns == exp_pc # "init_raised"

\* the constructor has raised with the generator of the text prefix assigned
C14_Witness ==
    /\ exp_pc = "init_raised"
    /\ exp_config = NumberingConfig(TRUE, FALSE, "style4", <<>>)
    /\ heading_number_generator # <<>>
    /\ exp_content # <<>>

\* the run of the paragraph that holds no character of the block's text and
\* is no placeholder: the literal prefix
HasPrefixRun(para) ==
    /\ para.style = "Heading"
    /\ para.runs # <<>>
    /\ para.runs[1].start = -1

\* C15: at most one of the text-prefix generator and the native numbering
\* definition is set on an exporter, and no heading of the document has a
\* literal prefix run when the native numbering is set.
C15_ModesExclusive ==
    /\ ~(auto_numbering_id # NoId /\ heading_number_generator # <<>>)
    /\ \A k \in 1..Len(doc) :
          doc[k].style = "Heading" => ~(HasPrefixRun(doc[k]) /\ auto_numbering_id # NoId)
    /\ \A k \in 1..Len(doc) : HasPrefixRun(doc[k]) => heading_number_generator # <<>>

\* a heading exported under native numbering, without a prefix run
C15_Witness ==
    /\ auto_numbering_id # NoId
    /\ heading_number_generator = <<>>
    /\ \E k \in 1..Len(doc) : doc[k].style = "Heading" /\ ~HasPrefixRun(doc[k])

\* the prefix of a heading paragraph: the text of its prefix run, "" when it
\* has none
PrefixOf(para) == IF HasPrefixRun(para) THEN para.runs[1].text ELSE ""

IsHeadingParagraph(para) == para.style = "Heading"

\* the heading paragraphs that the export() call c added
HeadingsOfCall(c) == SelectSeq(SubSeq(doc, c.first, c.last), IsHeadingParagraph)

\* the prefixes a generator of these formats returns for these headings,
\* its counters being cs before the first
RECURSIVE PrefixesFrom(_, _, _)
PrefixesFrom(fmts, cs, hs) ==
    IF hs = <<>> THEN <<>>
    ELSE LET lv == ClampLevel(hs[1].level)
             cs2 == UpdateCounter(cs, lv)
         IN  <<GenerateNumber(cs2, lv, FormatOf(fmts, lv))>>
             \o PrefixesFrom(fmts, cs2, Tail(hs))

C17_FreshCountersPerExporter ==
    heading_number_generator # <<>> =>
        LET hs == SelectSeq(doc, IsHeadingParagraph)
        IN  [k \in 1..Len(hs) |-> PrefixOf(hs[k])]
               = PrefixesFrom(heading_number_generator[1].level_formats, NoCounters, hs)

\* the blocks whose export fails: an element that is no dict, a heading of a
\* level python-docx has no style for, a list paragraph whose listLevel is None
ExportFails(block) ==
    \/ block.type = "#None"
    \/ block.type = "heading" /\ (block.level < 0 \/ block.level > 9)
    \/ /\ block.type = "paragraph"
       /\ block.attrs # <<>>
       /\ block.attrs[1].listType \in {"bullet", "ordered"}
       /\ block.attrs[1].listLevel = NoneInt

\* what the output holds for each block when a failed block is replaced by
\* the placeholder: "error" for a failed block, the kind of paragraph for a
\* block that is exported, nothing for a block of an unknown type
RECURSIVE ExpectedOutput(_)
ExpectedOutput(bs) ==
    IF bs = <<>> THEN <<>>
    ELSE (IF ExportFails(bs[1]) THEN <<"error">>
          ELSE IF bs[1].type \in {"paragraph", "heading", "divider"} THEN <<bs[1].type>>
          ELSE <<>>)
         \o ExpectedOutput(Tail(bs))

\* what a paragraph of the document is
OutputKind(para) ==
    IF IsErrorPlaceholder(para) THEN "error"
    ELSE IF para.style = "Heading" THEN "heading"
    ELSE IF para.style = "Divider" THEN "divider"
    ELSE "paragraph"

OutputOfCall(c) == [k \in 1..(c.last - c.first + 1) |-> OutputKind(doc[c.first + k - 1])]

\* the paragraph is what a failed block left behind before it raised
IsLeftover(para) == ExportFails(para.block) /\ ~IsErrorPlaceholder(para)

IsNoLeftover(para) == ~IsLeftover(para)

C13_PlaceholderAndContinue ==
    \A n \in 1..Len(exp_calls) :
        /\ exp_calls[n].outcome = "raised" =>
              \E k \in 1..Len(exp_content) : exp_content[k].type = "#None"
        /\ exp_calls[n].outcome = "returned" =>
              LET c == exp_calls[n]
                  kept == SelectSeq(SubSeq(doc, c.first, c.last), IsNoLeftover)
              IN  /\ [k \in 1..Len(kept) |-> OutputKind(kept[k])]
                        = ExpectedOutput(exp_content)
                  /\ \A k \in c.first..c.last :
                        IsLeftover(doc[k]) =>
                            /\ k < c.last
                            /\ IsErrorPlaceholder(doc[k + 1])
                            /\ doc[k + 1].block = doc[k].block

\* the marks of the paragraph's block that cover the run: the run holds
\* characters of the text and all of them lie in the mark's range
CoveringMarks(para, run) ==
    {k \in 1..Len(para.block.marks) :
        /\ run.start >= 0
        /\ para.block.marks[k].range[1] <= run.start
        /\ run.end <= para.block.marks[k].range[2]}

CoveredBy(para, run, type) ==
    \E k \in CoveringMarks(para, run) : para.block.marks[k].type = type

C11_StylesheetColorWins ==
    \A p \in 1..Len(doc) :
        (doc[p].style = "Heading" /\ exp_style # "" /\ doc[p].block = exp_content[1]
         /\ Len(exp_content) = 1) =>
            \A r \in 1..Len(doc[p].runs) : doc[p].runs[r].color = "0000FF"

\* the two lists hold the same marks (names, values, ranges) as often
CountOf(ms, m) == Cardinality({k \in 1..Len(ms) : ms[k] = m})

SameMarks(a, b) ==
    \A m \in {a[k] : k \in 1..Len(a)} \cup {b[k] : k \in 1..Len(b)} :
        CountOf(a, m) = CountOf(b, m)

SameKey(m1, m2) ==
    /\ m1.cls = m2.cls /\ m1.type = m2.type
    /\ m1.value = m2.value /\ m1.href = m2.href

\* adjacent or overlapping
Touching(r1, r2) == Max(r1[1], r2[1]) <= Min(r1[2], r2[2])

\* the list is in the order of extraction: by start
SortedByStart(ms) ==
    \A k \in 1..(Len(ms) - 1) : ms[k].range[1] <= ms[k + 1].range[1]

\* C6: merging the merged list again returns the same marks (names, values
\* and ranges, each as often) as merging once, sorted by start; and it returns
\* the very same list when the marks came in the order of their starts, as
\* the marks that extraction collects do.
C6_RemergeSameMarks ==
    mark_pc = "remerged" =>
        /\ SameMarks(remerged_marks, merged_marks)
        /\ SortedByStart(remerged_marks)
        /\ SortedByStart(marks) => remerged_marks = merged_marks

\* the same list for a list in any order: two marks of one start may swap
C6_RemergeSameListAnyOrder ==
    mark_pc = "remerged" => remerged_marks = merged_marks

C6_Witness ==
    /\ mark_pc = "remerged"
    /\ Len(marks) = 3
    /\ Len(merged_marks) = 2
    /\ remerged_marks # <<>>

\* C7: merging a permutation of a mark list returns the same set of marks
\* (names, values and ranges) as merging the list.
C7_OrderIndependent ==
    mark_pc = "permuted" => SameMarks(perm_marks, merged_marks)

C7_Witness ==
    /\ mark_pc = "permuted"
    /\ Len(marks) = 3
    /\ Len(merged_marks) = 2
    /\ perm_marks # merged_marks

\* C8: marks of one name and one value whose ranges are adjacent or overlap
\* are merged into one mark over the union of their ranges; the spans "AB"
\* and "CD" of one font-size give exactly one fontSize mark over (0,4).
C8_Scenario ==
    ElementNode("p", <<>>, "",
        <<ElementNode("span", <<Decl("font-size", "12pt")>>, "", <<TextNode(<<"A", "B">>)>>),
          ElementNode("span", <<Decl("font-size", "12pt")>>, "", <<TextNode(<<"C", "D">>)>>)>>)

C8_MergedOverUnion ==
    /\ mark_pc = "merged" =>
          \* touching marks of one key end up inside one merged mark
          /\ \A i, j \in 1..Len(marks) :
                (SameKey(marks[i], marks[j]) /\ Touching(marks[i].range, marks[j].range))
                  => \E k \in 1..Len(merged_marks) :
                        /\ SameKey(merged_marks[k], marks[i])
                        /\ merged_marks[k].range[1] <= Min(marks[i].range[1], marks[j].range[1])
                        /\ merged_marks[k].range[2] >= Max(marks[i].range[2], marks[j].range[2])
          \* the merged marks of one key do not touch
          /\ \A k, l \in 1..Len(merged_marks) :
                (k # l /\ SameKey(merged_marks[k], merged_marks[l]))
                  => ~Touching(merged_marks[k].range, merged_marks[l].range)
          \* a merged mark covers what marks of its key cover, and no more
          /\ \A k \in 1..Len(merged_marks) :
                /\ \E i \in 1..Len(marks) :
                      SameKey(marks[i], merged_marks[k])
                      /\ marks[i].range[1] = merged_marks[k].range[1]
                /\ \E i \in 1..Len(marks) :
                      SameKey(marks[i], merged_marks[k])
                      /\ marks[i].range[2] = merged_marks[k].range[2]
                /\ \A x \in merged_marks[k].range[1]..(merged_marks[k].range[2] - 1) :
                      \E i \in 1..Len(marks) :
                          /\ SameKey(marks[i], merged_marks[k])
                          /\ marks[i].range[1] <= x /\ x < marks[i].range[2]
    /\ (mark_pc = "extracted" /\ element = C8_Scenario) =>
          /\ extracted.full_text = <<"A", "B", "C", "D">>
          /\ extracted.marks = <<ValueMark("fontSize", <<0, 4>>, "12pt")>>

C8_Witness ==
    /\ mark_pc = "extracted"
    /\ element = C8_Scenario
    /\ extracted.marks = <<ValueMark("fontSize", <<0, 4>>, "12pt")>>

\* C9: extraction gives, for the simple marks that share one range, a single
\* CompositeMark whose type lists their names: text in strong and em gives
\* one CompositeMark with bold and italic, a lone bold one with ["bold"].
C9_SimpleMarksAreComposite ==
    mark_pc = "extracted" =>
        /\ \A k \in 1..Len(extracted.marks) : extracted.marks[k].cls # "SimpleMark"
        /\ \A k, l \in 1..Len(extracted.marks) :
              (k # l /\ extracted.marks[k].cls = "CompositeMark"
                     /\ extracted.marks[l].cls = "CompositeMark")
                => extracted.marks[k].range # extracted.marks[l].range
        /\ (element = ElementNode("p", <<>>, "",
                          <<ElementNode("strong", <<>>, "",
                              <<ElementNode("em", <<>>, "", <<TextNode(<<"A", "B">>)>>)>>)>>))
              => /\ Len(extracted.marks) = 1
                 /\ extracted.marks[1].cls = "CompositeMark"
                 /\ {extracted.marks[1].names[n] : n \in 1..Len(extracted.marks[1].names)}
                        = {"bold", "italic"}
                 /\ extracted.marks[1].range = <<0, 2>>

\* the segments are contiguous from 0 to len(text), none empty, each holding
\* its own slice of the text
Partition(text, segments) ==
    /\ text = <<>> => segments = <<>>
    /\ text # <<>> =>
          /\ segments # <<>>
          /\ segments[1].start = 0
          /\ segments[Len(segments)].end = Len(text)
          /\ \A k \in 1..Len(segments) :
                /\ segments[k].start < segments[k].end
                /\ segments[k].text = SubSeq(text, segments[k].start + 1, segments[k].end)
          /\ \A k \in 1..(Len(segments) - 1) : segments[k].end = segments[k + 1].start

RECURSIVE ConcatTexts(_)
ConcatTexts(segments) ==
    IF segments = <<>> THEN <<>>
    ELSE segments[1].text \o ConcatTexts(Tail(segments))

\* C4: for every text and every list of marks the segments that the renderer
\* and the exporter produce do not overlap, are contiguous, and concatenate
\* to the text.
C4_SegmentsCoverText ==
    seg_pc \in {"rendered", "exported"} =>
        /\ Partition(seg_text, seg_segments)
        /\ ConcatTexts(seg_segments) = seg_text

\* the renderer has emitted a piece of the text twice
C4_Witness ==
    /\ seg_pc = "rendered"
    /\ \A k \in 1..Len(seg_marks) : seg_marks[k].range[1] <= seg_marks[k].range[2]
    /\ Len(ConcatTexts(seg_segments)) > Len(seg_text)

\* what holds of the exporter when it returns
C4_ExporterCoversText ==
    seg_pc = "exported" =>
        /\ Partition(seg_text, seg_segments)
        /\ ConcatTexts(seg_segments) = seg_text

\* what holds of the renderer for ranges that do not end before the text
C4_RendererCoversTextFromZero ==
    (seg_pc = "rendered" /\ \A k \in 1..Len(seg_marks) : seg_marks[k].range[2] >= 0) =>
        /\ Partition(seg_text, seg_segments)
        /\ ConcatTexts(seg_segments) = seg_text

\* the exporter never raises
C4_ExporterReturns == seg_pc # "raised"

\* the tags of the elements of a list of nodes
RECURSIVE TagsOf(_)
TagsOf(nodes) ==
    IF nodes = <<>> THEN {}
    ELSE (IF nodes[1].tag = "#text" THEN {} ELSE {nodes[1].tag})
         \cup TagsOf(nodes[1].children) \cup TagsOf(Tail(nodes))

\* C10: rendering text under a CompositeMark with type [bold, italic,
\* underline] over the whole text gives output with strong, em and u tags.
C10_CompositeTags ==
    (/\ seg_pc = "rendered"
     /\ seg_text # <<>>
     /\ seg_marks = <<CompositeMark(<<"bold", "italic", "underline">>, <<0, Len(seg_text)>>)>>)
        => {"strong", "em", "u"} \subseteq TagsOf(seg_html)

\* the CompositeMark rendered: the escaped text and no tag
C10_Witness ==
    /\ seg_pc = "rendered"
    /\ Len(seg_text) = 3
    /\ seg_marks = <<CompositeMark(<<"bold", "italic", "underline">>, <<0, 3>>)>>
    /\ TagsOf(seg_html) = {}

\* the list type of a block, "none" when it is no list item
ListTypeOf(block) == IF IsListItem(block) THEN block.attrs[1].listType ELSE "none"

ListLevelOf(block) == IF IsListItem(block) THEN OrZero(block.attrs[1].listLevel) ELSE 0

\* the formatting in effect on the character at offset k
FormattingAt(block, k) ==
    {<<block.marks[i].cls, block.marks[i].type, block.marks[i].value, block.marks[i].href>> :
        i \in {j \in 1..Len(block.marks) :
                 block.marks[j].range[1] <= k /\ k < block.marks[j].range[2]}}

SameTypesAndText(a, b) ==
    /\ Len(a) = Len(b)
    /\ \A k \in 1..Len(a) :
          a[k].type = b[k].type /\ a[k].text = b[k].text /\ a[k].level = b[k].level

SameLists(a, b) ==
    \A k \in 1..Min(Len(a), Len(b)) :
        ListTypeOf(a[k]) = ListTypeOf(b[k]) /\ ListLevelOf(a[k]) = ListLevelOf(b[k])

SameFormatting(a, b) ==
    \A k \in 1..Min(Len(a), Len(b)) :
        \A c \in 0..(Len(a[k].text) - 1) : FormattingAt(a[k], c) = FormattingAt(b[k], c)

\* C5: parse(render(Content, StyleSheet)) has the same blocks in the same
\* order with the same types and text, the same list type and list level of
\* the list paragraphs, and the same formatting in effect on every character.
C5_RoundTrip ==
    rt_pc = "parsed" =>
        /\ SameTypesAndText(rt_content, rt_parsed)
        /\ SameLists(rt_content, rt_parsed)
        /\ SameFormatting(rt_content, rt_parsed)

\* a list paragraph of level 1 has come back with level 0
C5_Witness ==
    /\ rt_pc = "parsed"
    /\ Len(rt_content) = 1 /\ Len(rt_parsed) = 1
    /\ ListTypeOf(rt_content[1]) = "bullet" /\ ListLevelOf(rt_content[1]) = 1
    /\ ListTypeOf(rt_parsed[1]) = "bullet" /\ ListLevelOf(rt_parsed[1]) = 0

\* the parts of the round trip, one by one
C5_TypesAndTextKept == rt_pc = "parsed" => SameTypesAndText(rt_content, rt_parsed)

C5_ListsKept == rt_pc = "parsed" => SameLists(rt_content, rt_parsed)

C5_FormattingKept == rt_pc = "parsed" => SameFormatting(rt_content, rt_parsed)

-----------------------------------------------------------------------------
\* the content blocks of the chapters, one list after the other
RECURSIVE ConcatContents(_)
ConcatContents(chs) ==
    IF chs = <<>> THEN <<>>
    ELSE ConcatContents(SubSeq(chs, 1, Len(chs) - 1)) \o Last(chs).content

\* a heading of a level up to max_heading_level
IsBoundary(b) == b.type = "heading" /\ b.level <= max_level

\* C21: the content blocks of the chapters build() returns, concatenated in
\* list order, are the input blocks without the headings of a level up to
\* max_heading_level: every other block, deeper headings among them, is in
\* exactly one chapter and in source order.
C21_ContentPartition ==
    build_pc = "done" =>
        ConcatContents(chapters) = SelectSeq(blocks, LAMBDA b : ~IsBoundary(b))

\* content before the first chapter heading, and a deeper heading kept in the
\* content of the chapter after it
C21_Witness ==
    /\ build_pc = "done"
    /\ max_level = 2
    /\ Len(blocks) = 5
    /\ [i \in 1..5 |-> blocks[i].level] = <<0, 1, 3, 2, 0>>
    /\ Len(chapters) = 3
    /\ [i \in 1..3 |-> Len(chapters[i].content)] = <<1, 1, 1>>
    /\ chapters[2].content[1].type = "heading"

\* C26: the default chapter made from the content before the first chapter
\* heading has no parent, and no chapter made from a heading has it as parent.
C26_DefaultChapterChildless ==
    (chapters # <<>> /\ chapters[1].title = DefaultTitle) =>
        /\ chapters[1].parent_id = NoParent
        /\ \A i \in 2..Len(chapters) : chapters[i].parent_id # chapters[1].id

\* a paragraph and then a level-2 heading: the chapter of the heading has the
\* default chapter as parent
C26_Witness ==
    /\ build_pc = "done"
    /\ max_level >= 2
    /\ Len(blocks) = 2
    /\ blocks[1].type = "paragraph"
    /\ blocks[2].type = "heading" /\ blocks[2].level = 2
    /\ Len(chapters) = 2
    /\ chapters[1].title = DefaultTitle
    /\ chapters[2].parent_id = chapters[1].id

\* what holds: the default chapter has no parent, and its children are the
\* chapters of headings deeper than level 1 that come before every level-1
\* heading
C26_ChildrenOnlyBeforeFirstLevel1 ==
    (chapters # <<>> /\ chapters[1].title = DefaultTitle) =>
        /\ chapters[1].parent_id = NoParent
        /\ \A i \in 2..Len(chapters) :
              chapters[i].parent_id = chapters[1].id =>
                  \A j \in 2..i : chapters[j].heading_level > 1

\* the order_index values of the chapters with this parent_id, in list order
RECURSIVE IndicesUnder(_, _)
IndicesUnder(chs, parent_id) ==
    IF chs = <<>> THEN <<>>
    ELSE LET front == IndicesUnder(SubSeq(chs, 1, Len(chs) - 1), parent_id)
         IN  IF Last(chs).parent_id = parent_id
             THEN Append(front, Last(chs).order_index)
             ELSE front

\* C27: among the chapters build() returns with the same parent, the root
\* group among them, the order_index values are 0..n-1 in source order.
C27_SiblingIndices ==
    build_pc = "done" =>
        \A p \in {NoParent} \cup {chapters[i].id : i \in 1..Len(chapters)} :
            LET ixs == IndicesUnder(chapters, p)
            IN  ixs = [k \in 1..Len(ixs) |-> k - 1]

\* chapters of levels 1,2,2,1: the second root chapter is created with index 3
\* and returned with index 1
C27_Witness ==
    /\ build_pc = "done"
    /\ Len(chapters) = 4
    /\ [i \in 1..4 |-> chapters[i].heading_level] = <<1, 2, 2, 1>>
    /\ [i \in 1..4 |-> chapters[i].order_index] = <<0, 0, 1, 1>>

\* the level-1 headings among the first n levels
CountLevel1(ls, n) == Cardinality({i \in 1..n : ls[i] = 1})

\* C30: from a fresh generator the k-th level-1 heading is numbered k, whatever
\* deeper headings came before it.
C30_Level1Counts ==
    \A n \in 1..Len(levels) :
        levels[n] = 1 =>
            prefixes[n] =
                GenerateNumber([l \in Levels |-> <<CountLevel1(levels, n)>>], 1,
                               FormatOf(level_formats, 1))

\* a level-2 heading first: the first level-1 heading is numbered 2
C30_Witness ==
    /\ level_formats = NoFormats
    /\ levels = <<2, 1>>
    /\ prefixes = <<"1.1 ", "2 ">>

\* what holds: the k-th level-1 heading is numbered k unless a level-2 heading
\* came before the first level-1 heading, and k+1 then
C30_Level1CountsButAfterLevel2 ==
    \A n \in 1..Len(levels) :
        levels[n] = 1 =>
            LET first == CHOOSE i \in 1..n : levels[i] = 1 /\ \A j \in 1..(i - 1) : levels[j] # 1
                early == \E j \in 1..(first - 1) : levels[j] = 2
                k == CountLevel1(levels, n) + (IF early THEN 1 ELSE 0)
            IN  prefixes[n] =
                    GenerateNumber([l \in Levels |-> <<k>>], 1, FormatOf(level_formats, 1))

\* the paragraphs that AddHeading made, whichever export() call made them
IsHeadingOfLevel(para, L) ==
    para.style = "Heading" /\ para.level = L /\ ~IsErrorPlaceholder(para)

C22_NativeHeadingsBare ==
    auto_numbering_id # NoId =>
        \A k \in 1..Len(doc) : \A L \in Levels :
            IsHeadingOfLevel(doc[k], L) =>
                /\ doc[k].numPr = <<>>
                /\ \A i \in 1..Len(doc[k].runs) : doc[k].runs[i].start >= 0

\* the table a tableCell or tableColumn rule was derived from is a table of
\* the document
OfTableOfDocument(rule) ==
    \E k \in 1..Len(blocks) : blocks[k].id = rule.of_table /\ blocks[k].type = "table"

\* the rule targets a block of the chapter, or a cell or a column of a table
\* of the chapter
TargetsChapter(rule, chapter) ==
    IF rule.blockType \in {"tableCell", "tableColumn"}
    THEN \E k \in 1..Len(chapter.content) :
            chapter.content[k].id = rule.of_table /\ chapter.content[k].type = "table"
    ELSE \E i \in 1..Len(rule.blockIds) : \E k \in 1..Len(chapter.content) :
            rule.blockIds[i] = chapter.content[k].id

\* C28: every rule of a chapter's stylesheet targets a block of the chapter's
\* content or a cell or a column of a table of the chapter; the rules of the
\* tables and blocks of other chapters are not in it.
C28_RulesOfOwnBlocks ==
    build_pc = "done" =>
        \A i \in 1..Len(chapters) : \A k \in 1..Len(chapters[i].stylesheet) :
            LET rule == chapters[i].stylesheet[k]
            IN  (rule.blockType \in {"tableCell", "tableColumn"} => OfTableOfDocument(rule))
                    => TargetsChapter(rule, chapters[i])

\* a table, a level-1 heading, a table: the chapter of the heading holds the
\* second table and has the cell rule of the first table in its stylesheet
C28_Witness ==
    /\ build_pc = "done"
    /\ Len(blocks) = 3
    /\ [i \in 1..3 |-> blocks[i].type] = <<"table", "heading", "table">>
    /\ Len(chapters) = 2
    /\ chapters[2].content = <<blocks[3]>>
    /\ \E k \in 1..Len(chapters[2].stylesheet) :
          /\ chapters[2].stylesheet[k].blockType = "tableCell"
          /\ chapters[2].stylesheet[k].of_table = blocks[1].id

\* what holds: a block rule and a column rule are in the stylesheets of the
\* chapters that hold their block, and a cell rule is in the stylesheet of
\* every chapter that holds a table, whichever table
C28_CellRulesOfAnyTable ==
    build_pc = "done" =>
        \A i \in 1..Len(chapters) : \A k \in 1..Len(style_rules) :
            LET rule == style_rules[k]
                inSheet == \E j \in 1..Len(chapters[i].stylesheet) :
                              chapters[i].stylesheet[j] = rule
                hasTable == \E j \in 1..Len(chapters[i].content) :
                               chapters[i].content[j].type = "table"
            IN  IF rule.blockType = "tableCell" THEN inSheet = hasTable
                ELSE inSheet = \E j \in 1..Len(chapters[i].content) :
                                   chapters[i].content[j].id = rule.blockIds[1]

\* the TableData of a table block breaks the table invariant: a mergeRegion
\* reaches outside the grid or two mergeRegions overlap
ViolatesTableInvariant(block) ==
    /\ block.type = "table"
    /\ LET td == block.data[1]
       IN  \/ \E k \in 1..Len(td.mergeRegions) :
                 ~(RegionCells(td.mergeRegions[k])
                      \subseteq (0..(td.rows - 1)) \X (0..(td.cols - 1)))
           \/ \E j \in 1..Len(td.mergeRegions) : \E k \in (j + 1)..Len(td.mergeRegions) :
                 RegionCells(td.mergeRegions[j]) \cap RegionCells(td.mergeRegions[k]) # {}

C25_InvalidRegionSkipped ==
    \A k \in 1..Len(doc) :
        doc[k].style = "Table Grid" =>
            LET td == doc[k].block.data[1]
            IN  /\ ~IsErrorPlaceholder(doc[k])
                /\ \A j \in 1..Len(doc[k].merged) :
                      /\ \E i \in 1..Len(td.mergeRegions) : td.mergeRegions[i] = doc[k].merged[j]
                      /\ RegionCells(doc[k].merged[j])
                            \subseteq (0..(td.rows - 1)) \X (0..(td.cols - 1))
                /\ (~ViolatesTableInvariant(doc[k].block) =>
                       doc[k].merged = td.mergeRegions)

\* the rows below row r that continue the vertical merge of the tc at grid
\* column off with span grid columns
RECURSIVE ContinuedBelow(_, _, _, _)
ContinuedBelow(tbl, r, off, span) ==
    IF r + 1 > Len(tbl) THEN 0
    ELSE IF \E j \in 1..Len(tbl[r + 1]) :
               /\ GridOffset(tbl[r + 1], j) = off
               /\ tbl[r + 1][j].gridSpan = span
               /\ tbl[r + 1][j].vMerge = "continue"
         THEN 1 + ContinuedBelow(tbl, r + 1, off, span)
         ELSE 0

\* the vertically merged cells of a w:tbl: top cell (row, col), rows k > 1
\* and columns spanned
VerticalMerges(tbl) ==
    {m \in [row : 0..(Len(tbl) - 1), col : 0..(MaxGridCols - 1),
            rowspan : 2..MaxTblRows, colspan : 1..MaxGridCols] :
        \E k \in 1..Len(tbl[m.row + 1]) :
            /\ tbl[m.row + 1][k].vMerge = "restart"
            /\ GridOffset(tbl[m.row + 1], k) = m.col
            /\ tbl[m.row + 1][k].gridSpan = m.colspan
            /\ 1 + ContinuedBelow(tbl, m.row + 1, m.col, m.colspan) = m.rowspan}

\* the merge_map that _parse_table has filled at its end
DocxMergeMap(tbl) ==
    DocxParseRows(tbl, 0, MaxGridCols, [merge_map |-> {}, cells |-> <<>>]).merge_map

\* C23: importing a table with a vertically merged cell that spans k > 1 rows
\* yields one mergeRegion whose masterCell is the top cell and whose end row
\* is the start row + k - 1, of type vertical (rectangular when it spans
\* columns too), and the covered coordinates are in the occupancy map.
C23_VerticalMergeRegion ==
    imp_pc = "converted" =>
        \A i \in 1..Len(imp_body) :
            imp_body[i].tag = "tbl" =>
                \A m \in VerticalMerges(imp_body[i].rows) :
                    LET regions == imp_blocks[i].data[1].mergeRegions
                        mine == {n \in 1..Len(regions) :
                                    regions[n].masterCell = <<m.row, m.col>>}
                    IN  /\ Cardinality(mine) = 1
                        /\ \A n \in mine :
                              /\ regions[n].end = <<m.row + m.rowspan - 1,
                                                    m.col + m.colspan - 1>>
                              /\ regions[n].type = IF m.colspan = 1 THEN "vertical"
                                                   ELSE "rectangular"
                        /\ Merged(m.row, m.col, m.rowspan, m.colspan)
                              \subseteq DocxMergeMap(imp_body[i].rows)

\* a table with a vertically merged cell has been imported
C23_Witness ==
    /\ imp_pc = "converted"
    /\ \E i \in 1..Len(imp_body) :
          /\ imp_body[i].tag = "tbl"
          /\ VerticalMerges(imp_body[i].rows) # {}
          /\ imp_blocks[i].type = "table"

\* what the importer does: no mergeRegion spans rows; a vertically merged
\* cell comes back as separate cells, the lower ones with the text of the
\* top one, and none of them is in the occupancy map
C23_VerticalMergeFlattened ==
    imp_pc = "converted" =>
        \A i \in 1..Len(imp_body) :
            imp_body[i].tag = "tbl" =>
                LET td == imp_blocks[i].data[1]
                IN  /\ \A n \in 1..Len(td.mergeRegions) :
                          /\ td.mergeRegions[n].end[1] = td.mergeRegions[n].start[1]
                          /\ td.mergeRegions[n].type = "horizontal"
                    /\ \A m \in VerticalMerges(imp_body[i].rows) :
                          \A dr \in 1..(m.rowspan - 1) :
                              /\ <<m.row + dr, m.col>> \notin DocxMergeMap(imp_body[i].rows)
                              /\ \E k \in 1..Len(td.cells) :
                                    /\ td.cells[k].cell = <<m.row + dr, m.col>>
                                    /\ td.cells[k].text[1] = m.row + 1

\* the src of the Image blocks, in the order of the blocks
RECURSIVE ImageSrcs(_)
ImageSrcs(blks) ==
    IF blks = <<>> THEN <<>>
    ELSE IF blks[1].type = "image" THEN <<blks[1].src>> \o ImageSrcs(Tail(blks))
    ELSE ImageSrcs(Tail(blks))

\* the paths that the path map gives the embedded images of the body, in
\* document order
RECURSIVE EmbeddedImagePaths(_, _)
EmbeddedImagePaths(body, path_map) ==
    IF body = <<>> THEN <<>>
    ELSE IF body[1].blip # ""
    THEN <<PathOf(path_map, body[1].blip)>> \o EmbeddedImagePaths(Tail(body), path_map)
    ELSE EmbeddedImagePaths(Tail(body), path_map)

\* C24: for every embedded image of an imported document the block sequence
\* has an Image block, in document order, whose src is the path that the
\* path map records for the relationship id of the image.
C24_ImageBlockPerImage ==
    imp_pc = "converted" =>
        ImageSrcs(imp_blocks) = EmbeddedImagePaths(imp_body, imp_path_map)

\* a document with an embedded image, saved and recorded in the path map, has
\* been converted
C24_Witness ==
    /\ imp_pc = "converted"
    /\ \E i \in 1..Len(imp_body) :
          /\ imp_body[i].blip # ""
          /\ imp_body[i].blip \in imp_images
          /\ \E k \in 1..Len(imp_path_map) : imp_path_map[k][1] = imp_body[i].blip

\* what the importer does: the images are extracted and saved, but the body
\* parser emits no image element, so that no block is an Image block and the
\* paragraph of the image comes back as a text block
C24_NoImageBlock ==
    imp_pc = "converted" =>
        /\ \A n \in 1..Len(imp_blocks) : imp_blocks[n].type # "image"
        /\ Len(imp_blocks) = Len(imp_body)
        /\ \A i \in 1..Len(imp_body) :
              imp_body[i].blip # "" =>
                  imp_blocks[i].type \in {"paragraph", "heading"}

\* a rule derived from the cell rc of table t shows in a style of the cell rc
\* of another table u: the style has, for a key of the rule, the rule's
\* value, which is not the user style of u's own cell
ShowsForeignRule(t, u, rc, styles) ==
    \E p \in CsProps :
        /\ cs_html[t][rc[1] + 1][rc[2] + 1][p] # ""
        /\ cs_html[u][rc[1] + 1][rc[2] + 1][p] # cs_html[t][rc[1] + 1][rc[2] + 1][p]
        /\ styles[p] = cs_html[t][rc[1] + 1][rc[2] + 1][p]

\* C29: in a document with more than one table, a cell style rule derived
\* from the cell (r,c) of one table is applied only to that table's cell on
\* render and on export, never to the cell (r,c) of another table.
C29_CellRuleStaysInItsTable ==
    \A t \in 1..Len(cs_html) : \A u \in 1..Len(cs_html) :
        t # u =>
            \A rc \in (0..(MaxCsRows - 1)) \X (0..(MaxCsCols - 1)) :
                /\ "export" \in cs_done => ~ShowsForeignRule(t, u, rc, cs_docx[u][rc])
                /\ "render" \in cs_done => ~ShowsForeignRule(t, u, rc, cs_rendered[u][rc])

\* a document of two tables, the cell (0,0) of the first with a style rule,
\* has been exported and rendered
C29_Witness ==
    /\ Len(cs_html) = 2
    /\ cs_done = {"export", "render"}
    /\ \E n \in 1..Len(cs_rules) :
          /\ cs_rules[n].of_table = 1
          /\ cs_rules[n].blockIds = <<CellId(0, 0)>>
    /\ cs_html[2][1][1] # cs_html[1][1][1]

\* the user styles of the cells rc of the tables up to table n, the later
\* over the earlier
RECURSIVE StylesAtCoordinate(_, _)
StylesAtCoordinate(n, rc) ==
    IF n = 0 THEN NoStyles
    ELSE Update(StylesAtCoordinate(n - 1, rc), cs_html[n][rc[1] + 1][rc[2] + 1])

\* what the code does: the rules are keyed by row and column alone, so that
\* on export every cell (r,c) of every table gets the styles of the cells
\* (r,c) of all tables, the later table's over the earlier's, and on render
\* every cell (r,c) that has user styles of its own gets them too; with one
\* table a cell gets its own styles
C29_CellRulesSharedByCoordinate ==
    \A u \in 1..Len(cs_html) :
        \A rc \in (0..(MaxCsRows - 1)) \X (0..(MaxCsCols - 1)) :
            /\ "export" \in cs_done =>
                  cs_docx[u][rc] = StylesAtCoordinate(Len(cs_html), rc)
            /\ "render" \in cs_done =>
                  cs_rendered[u][rc] =
                      IF cs_html[u][rc[1] + 1][rc[2] + 1] # NoStyles
                      THEN StylesAtCoordinate(Len(cs_html), rc)
                      ELSE NoStyles
            /\ Len(cs_html) = 1 /\ "export" \in cs_done =>
                  cs_docx[u][rc] = cs_html[u][rc[1] + 1][rc[2] + 1]
            /\ Len(cs_html) = 1 /\ "render" \in cs_done =>
                  cs_rendered[u][rc] = cs_html[u][rc[1] + 1][rc[2] + 1]

=============================================================================
